---- MODULE Spec2Model ----
(***************************************************************************)
(* A model of the Black-Scholes engine of option-chart                     *)
(* (src/utils/BlackScholes.js, kept as src/unnamed/part_001) and of the    *)
(* components that call it.                                                *)
(*                                                                         *)
(* Numbers are JavaScript Numbers: IEEE-754 binary64 values.  The four     *)
(* arithmetic operations, the comparisons, Math.max, Math.round and        *)
(* Math.sqrt are modelled exactly (53-bit significand, round to nearest,   *)
(* ties to even, NaN and the infinities), because the sweep loops of the   *)
(* chart generators accumulate a rounded step and what they return depends *)
(* on every rounding.  Two simplifications: there is one zero (no -0) and  *)
(* the exponent is unbounded below (no subnormals); the model's inputs     *)
(* stay far from both.                                                     *)
(*                                                                         *)
(* Math.log, Math.exp and mathjs' erf are library code outside the         *)
(* repository.  They are modelled by monotone table interpolations that    *)
(* return binary64 values on a dyadic grid and keep the properties the     *)
(* engine relies on: log(1) = 0, exp(0) = 1, erf odd with erf(0) = 0 and   *)
(* values in [-1, 1], NaN and the infinities handled as the library does.  *)
(***************************************************************************)
EXTENDS Integers, Sequences, FiniteSets, TLC

(***************************************************************************)
(* The engine is a library of pure functions.  A state is one call: the    *)
(* function called (op), its arguments (args) and what it returned         *)
(* (result).  Arguments are written as the caller writes them: prices in   *)
(* whole dollars, rates, times, volatilities and ranges in hundredths      *)
(* (the decimal literal n/100), point counts as integers.                  *)
(***************************************************************************)
VARIABLES op, args, result

callVars == <<op, args, result>>

(***************************************************************************)
(* The BrownianMotion component.  motion holds its parameter state (drift  *)
(* and diffusion in hundredths, timeHorizon in tenths, as the sliders      *)
(* deliver them), simulationData the dataset on display, now the last      *)
(* reading of Date.now().  pc is the position of the effect: "effect"      *)
(* (scheduled), "simulatePaths" (between two passes of its path loop),     *)
(* "generatePath" (inside a call of generatePath), "merge" and "idle".     *)
(* sim holds the locals i, allPaths and expectedPath of simulatePaths,     *)
(* frame the locals seed, currentValue, t and path of the running call of  *)
(* generatePath.  reads and runs are history variables: the clock reading  *)
(* and the seed each path of the current run started from, and the runs    *)
(* finished so far.                                                        *)
(***************************************************************************)
VARIABLES motion, simulationData, now, pc, sim, frame, reads, runs

brownianVars == <<motion, simulationData, now, pc, sim, frame, reads, runs>>

(***************************************************************************)
(* The App component.  app holds its state: parameters (the Numbers the    *)
(* input panel delivered), optionPrice, greeks, priceChartData,            *)
(* volatilityChartData and deltaUnderlyingData, and two fields of the      *)
(* model: turn, the position of the component ("effect": a render has      *)
(* committed new parameters and the effect is due, "idle": the effect has  *)
(* run, "hung": the effect entered a loop that does not end), and changes, *)
(* the number of parameter changes so far.                                 *)
(***************************************************************************)
VARIABLE app

appVars == <<app>>

(***************************************************************************)
(* Sequences of engine calls made by one caller.  heap holds the objects   *)
(* the calls returned, a reference being an index into it; calls is the    *)
(* history of the calls: function, arguments, the reference returned and   *)
(* the value it had on return.                                             *)
(***************************************************************************)
VARIABLES heap, calls

heapVars == <<heap, calls>>

(***************************************************************************)
(* Three components that keep their own state.  approx is the state of     *)
(* DeltaApproximationChart (with the parameters it was last given),        *)
(* tangent that of DeltaTangentChart, normal that of NormalDistribution.   *)
(* A value that may be null is a sequence: empty for null, of one element  *)
(* otherwise.                                                              *)
(***************************************************************************)
VARIABLES approx, tangent, normal

panelVars == <<approx, tangent, normal>>

vars == <<callVars, brownianVars, appVars, heapVars, panelVars>>

(***************************************************************************)
(* Natural numbers of any size: little-endian sequences of limbs in base   *)
(* 2^15, without leading zero limbs (TLC's own integers have 32 bits, a    *)
(* binary64 significand has 53 and a product of two has 106).              *)
(***************************************************************************)
LimbBits == 15

Base == 2 ^ LimbBits

RECURSIVE BNorm(_)
BNorm(a) ==
  IF a = <<>> THEN a
  ELSE IF a[Len(a)] = 0 THEN BNorm(SubSeq(a, 1, Len(a) - 1))
  ELSE a

RECURSIVE BFromInt(_)
BFromInt(n) ==
  IF n = 0 THEN <<>> ELSE <<n % Base>> \o BFromInt(n \div Base)

RECURSIVE BToInt(_)
BToInt(a) ==
  IF a = <<>> THEN 0 ELSE Head(a) + Base * BToInt(Tail(a))

RECURSIVE BCmpFrom(_, _, _)
BCmpFrom(a, b, i) ==
  IF i = 0 THEN 0
  ELSE IF a[i] < b[i] THEN -1
  ELSE IF a[i] > b[i] THEN 1
  ELSE BCmpFrom(a, b, i - 1)

BCmp(a, b) ==
  IF Len(a) < Len(b) THEN -1
  ELSE IF Len(a) > Len(b) THEN 1
  ELSE BCmpFrom(a, b, Len(a))

RECURSIVE BAddC(_, _, _)
BAddC(a, b, c) ==
  IF a = <<>> /\ b = <<>> THEN (IF c = 0 THEN <<>> ELSE <<c>>)
  ELSE LET x == IF a = <<>> THEN 0 ELSE Head(a)
           y == IF b = <<>> THEN 0 ELSE Head(b)
           s == x + y + c
       IN  <<s % Base>> \o BAddC(IF a = <<>> THEN a ELSE Tail(a),
                                 IF b = <<>> THEN b ELSE Tail(b),
                                 s \div Base)

BAdd(a, b) == BAddC(a, b, 0)

RECURSIVE BSubC(_, _, _)
BSubC(a, b, c) ==
  IF a = <<>> THEN <<>>
  ELSE LET y == IF b = <<>> THEN 0 ELSE Head(b)
           d == Head(a) - y - c
       IN  <<IF d < 0 THEN d + Base ELSE d>>
           \o BSubC(Tail(a), IF b = <<>> THEN b ELSE Tail(b),
                    IF d < 0 THEN 1 ELSE 0)

\* a - b for a >= b
BSub(a, b) == BNorm(BSubC(a, b, 0))

RECURSIVE BMulSmallC(_, _, _)
BMulSmallC(a, k, c) ==
  IF a = <<>> THEN (IF c = 0 THEN <<>> ELSE <<c>>)
  ELSE LET p == Head(a) * k + c
       IN  <<p % Base>> \o BMulSmallC(Tail(a), k, p \div Base)

\* a * k for 0 <= k < Base
BMulSmall(a, k) == IF k = 0 THEN <<>> ELSE BMulSmallC(a, k, 0)

RECURSIVE BMul(_, _)
BMul(a, b) ==
  IF a = <<>> \/ b = <<>> THEN <<>>
  ELSE LET rest == BMul(a, Tail(b))
       IN  BAdd(BMulSmall(a, Head(b)),
                IF rest = <<>> THEN rest ELSE <<0>> \o rest)

RECURSIVE BDivSmallFrom(_, _, _, _)
BDivSmallFrom(a, k, i, r) ==
  IF i = 0 THEN <<>>
  ELSE LET cur == r * Base + a[i]
       IN  BDivSmallFrom(a, k, i - 1, cur % k) \o <<cur \div k>>

\* floor(a / k) for 0 < k <= Base
BDivSmall(a, k) == BNorm(BDivSmallFrom(a, k, Len(a), 0))

\* a * 2^n
BShl(a, n) ==
  IF a = <<>> THEN a
  ELSE [i \in 1..(n \div LimbBits) |-> 0] \o BMulSmall(a, 2 ^ (n % LimbBits))

\* floor(a / 2^n)
BShr(a, n) ==
  IF n \div LimbBits >= Len(a) THEN <<>>
  ELSE BDivSmall(SubSeq(a, (n \div LimbBits) + 1, Len(a)), 2 ^ (n % LimbBits))

RECURSIVE IntBitLen(_)
IntBitLen(n) == IF n = 0 THEN 0 ELSE 1 + IntBitLen(n \div 2)

BBitLen(a) ==
  IF a = <<>> THEN 0 ELSE LimbBits * (Len(a) - 1) + IntBitLen(a[Len(a)])

BIsOdd(a) == a # <<>> /\ a[1] % 2 = 1

BOne == <<1>>

Limb(a, i) == IF i >= 1 /\ i <= Len(a) THEN a[i] ELSE 0

\* the largest digit g <= guess with d * g <= r
RECURSIVE DivDigit(_, _, _)
DivDigit(r, d, guess) ==
  IF BCmp(BMulSmall(d, guess), r) <= 0 THEN guess ELSE DivDigit(r, d, guess - 1)

\* long division of a by d, whose top limb is at least Base / 2, from limb
\* i of a down to the first, with r the remainder and q the quotient so far
RECURSIVE DivLoop(_, _, _, _, _)
DivLoop(a, d, i, r, q) ==
  IF i = 0 THEN <<BNorm(q), r>>
  ELSE LET n   == Len(d)
           r1  == BNorm(<<a[i]>> \o r)
           top == Limb(r1, n + 1) * Base + Limb(r1, n)
           est == top \div d[n]
           g   == DivDigit(r1, d, IF est > Base - 1 THEN Base - 1 ELSE est)
           r2  == BSub(r1, BMulSmall(d, g))
       IN  IF Len(r2) >= 0 THEN DivLoop(a, d, i - 1, r2, <<g>> \o q)
           ELSE <<q, r>>

\* <<floor(a / b), whether a is a multiple of b>> for b > 0
BDivMod(a, b) ==
  LET sh == LimbBits - IntBitLen(b[Len(b)])
      qr == DivLoop(BShl(a, sh), BShl(b, sh), Len(BShl(a, sh)), <<>>, <<>>)
  IN  <<qr[1], qr[2] = <<>>>>

\* a mod b for b > 0
BMod(a, b) ==
  LET sh == LimbBits - IntBitLen(b[Len(b)])
      qr == DivLoop(BShl(a, sh), BShl(b, sh), Len(BShl(a, sh)), <<>>, <<>>)
  IN  BShr(qr[2], sh)

\* floor(sqrt(n)) for 0 <= n < 2^30, by Newton's iteration from above
RECURSIVE IntSqrtFrom(_, _)
IntSqrtFrom(n, x) ==
  LET y == (x + n \div x) \div 2
  IN  IF y >= x THEN x ELSE IntSqrtFrom(n, y)

IntSqrt(n) == IF n = 0 THEN 0 ELSE IntSqrtFrom(n, Base)

\* floor(sqrt(N)) by Newton's iteration from x >= floor(sqrt(N))
RECURSIVE BSqrtFrom(_, _)
BSqrtFrom(N, x) ==
  LET y == BShr(BAdd(x, BDivMod(N, x)[1]), 1)
  IN  IF BCmp(y, x) >= 0 THEN x ELSE BSqrtFrom(N, y)

(***************************************************************************)
(* A JavaScript Number: [k, s, e, m].  k = "nan", k = "inf" (sign s), or   *)
(* k = "fin": zero (m empty) or (-1)^s * m * 2^e with m a natural number   *)
(* of exactly MantBits bits.                                               *)
(***************************************************************************)
MantBits == 53

ExpLimit == 1024

NaN == [k |-> "nan", s |-> 0, e |-> 0, m |-> <<>>]

Inf(s) == [k |-> "inf", s |-> s, e |-> 0, m |-> <<>>]

Zero == [k |-> "fin", s |-> 0, e |-> 0, m |-> <<>>]

IsNaN(x) == x.k = "nan"

IsInf(x) == x.k = "inf"

IsZero(x) == x.k = "fin" /\ x.m = <<>>

IsFinite(x) == x.k = "fin"

\* a finite value at or above 2^ExpLimit overflows to an infinity
Pack(s, m, e) ==
  IF e + MantBits > ExpLimit THEN Inf(s)
  ELSE [k |-> "fin", s |-> s, e |-> e, m |-> m]

\* the binary64 value nearest to (-1)^s * M * 2^E, ties to even
FRound(s, M, E) ==
  IF M = <<>> THEN Zero
  ELSE LET L == BBitLen(M)
       IN  IF L <= MantBits
           THEN Pack(s, BShl(M, MantBits - L), E - (MantBits - L))
           ELSE LET sh   == L - MantBits
                    q    == BShr(M, sh)
                    r    == BSub(M, BShl(q, sh))
                    c    == BCmp(r, BShl(BOne, sh - 1))
                    up   == c > 0 \/ (c = 0 /\ BIsOdd(q))
                    q1   == IF up THEN BAdd(q, BOne) ELSE q
                IN  IF BBitLen(q1) > MantBits
                    THEN Pack(s, BShr(q1, 1), E + sh + 1)
                    ELSE Pack(s, q1, E + sh)

\* the Number an integer literal denotes
NumFromInt(n) == FRound(IF n < 0 THEN 1 ELSE 0, BFromInt(IF n < 0 THEN -n ELSE n), 0)

FNeg(x) == IF IsNaN(x) \/ IsZero(x) THEN x ELSE [x EXCEPT !.s = 1 - x.s]

FAbs(x) == IF IsNaN(x) THEN x ELSE [x EXCEPT !.s = 0]

\* -1, 0, 1: the order of the magnitudes of two values that are not NaN
MagCmp(x, y) ==
  IF IsInf(x) THEN (IF IsInf(y) THEN 0 ELSE 1)
  ELSE IF IsInf(y) THEN -1
  ELSE IF x.m = <<>> THEN (IF y.m = <<>> THEN 0 ELSE -1)
  ELSE IF y.m = <<>> THEN 1
  ELSE IF x.e < y.e THEN -1
  ELSE IF x.e > y.e THEN 1
  ELSE BCmp(x.m, y.m)

SignOf(x) == IF IsZero(x) THEN 0 ELSE IF x.s = 1 THEN -1 ELSE 1

\* -1, 0, 1: the order of two values that are not NaN
FCmp(x, y) ==
  IF SignOf(x) < SignOf(y) THEN -1
  ELSE IF SignOf(x) > SignOf(y) THEN 1
  ELSE SignOf(x) * MagCmp(x, y)

FLe(x, y) == ~IsNaN(x) /\ ~IsNaN(y) /\ FCmp(x, y) <= 0

FLt(x, y) == ~IsNaN(x) /\ ~IsNaN(y) /\ FCmp(x, y) < 0

FGt(x, y) == FLt(y, x)

FGe(x, y) == FLe(y, x)

\* finite, non-zero operands
FAddFin(x, y) ==
  IF x.e - y.e > 2 * MantBits THEN x
  ELSE IF y.e - x.e > 2 * MantBits THEN y
  ELSE LET e == IF x.e < y.e THEN x.e ELSE y.e
           X == BShl(x.m, x.e - e)
           Y == BShl(y.m, y.e - e)
           c == BCmp(X, Y)
       IN  IF x.s = y.s THEN FRound(x.s, BAdd(X, Y), e)
           ELSE IF c = 0 THEN Zero
           ELSE IF c > 0 THEN FRound(x.s, BSub(X, Y), e)
           ELSE FRound(y.s, BSub(Y, X), e)

\* x + y
NumAdd(x, y) ==
  IF IsNaN(x) \/ IsNaN(y) THEN NaN
  ELSE IF IsInf(x) THEN (IF IsInf(y) /\ x.s # y.s THEN NaN ELSE x)
  ELSE IF IsInf(y) THEN y
  ELSE IF IsZero(x) THEN y
  ELSE IF IsZero(y) THEN x
  ELSE FAddFin(x, y)

\* x * y
NumMul(x, y) ==
  IF IsNaN(x) \/ IsNaN(y) THEN NaN
  ELSE IF IsInf(x) \/ IsInf(y)
       THEN (IF IsZero(x) \/ IsZero(y) THEN NaN ELSE Inf((x.s + y.s) % 2))
  ELSE IF IsZero(x) \/ IsZero(y) THEN Zero
  ELSE FRound((x.s + y.s) % 2, BMul(x.m, y.m), x.e + y.e)

\* x / y
NumDiv(x, y) ==
  IF IsNaN(x) \/ IsNaN(y) THEN NaN
  ELSE IF IsInf(x) THEN (IF IsInf(y) THEN NaN ELSE Inf((x.s + y.s) % 2))
  ELSE IF IsInf(y) THEN Zero
  ELSE IF IsZero(y) THEN (IF IsZero(x) THEN NaN ELSE Inf(x.s))
  ELSE IF IsZero(x) THEN Zero
  ELSE LET d == BDivMod(BShl(x.m, 4 * LimbBits), y.m)
           M == BAdd(BShl(d[1], 1), IF d[2] THEN <<>> ELSE BOne)
       IN  FRound((x.s + y.s) % 2, M, x.e - y.e - 4 * LimbBits - 1)

\* x % y: the exact remainder of the truncated division, with the sign of x
NumMod(x, y) ==
  IF IsNaN(x) \/ IsNaN(y) \/ IsInf(x) \/ IsZero(y) THEN NaN
  ELSE IF IsInf(y) \/ IsZero(x) THEN x
  ELSE LET sh == x.e - y.e
       IN  IF sh >= 0 THEN FRound(x.s, BMod(BShl(x.m, sh), y.m), y.e)
           ELSE FRound(x.s, BMod(x.m, BShl(y.m, -sh)), x.e)

\* Math.max of two arguments
MathMax(x, y) ==
  IF IsNaN(x) \/ IsNaN(y) THEN NaN
  ELSE IF FCmp(x, y) >= 0 THEN x ELSE y

\* Math.round: the nearest integer, a tie going towards +Infinity
NumRound(x) ==
  IF ~IsFinite(x) \/ IsZero(x) \/ x.e >= 0 THEN x
  ELSE IF -x.e > 2 * MantBits THEN Zero
  ELSE LET n    == -x.e
           half == BShl(BOne, n)
           two  == BShl(x.m, 1)
       IN  IF x.s = 0
           THEN FRound(0, BShr(BAdd(two, half), n + 1), 0)
           ELSE IF BCmp(two, half) <= 0 THEN Zero
           ELSE FRound(1, BShr(BAdd(BSub(two, half), BSub(BShl(BOne, n + 1), BOne)),
                               n + 1), 0)

\* Math.sqrt: correctly rounded, NaN below zero
NumSqrt(x) ==
  IF IsNaN(x) THEN NaN
  ELSE IF IsZero(x) THEN Zero
  ELSE IF x.s = 1 THEN NaN
  ELSE IF IsInf(x) THEN x
  ELSE LET odd == x.e % 2 = 1
           e   == IF odd THEN x.e - 1 ELSE x.e
           \* N = m * 2^(e - E) with E even: 109 or 110 bits
           N   == BShl(x.m, IF odd THEN 57 ELSE 56)
           x0  == BShl(BFromInt(IntSqrt(BToInt(BShr(N, 80))) + 1), 40)
           R   == BSqrtFrom(N, x0)
           M   == BAdd(BShl(R, 1), IF BMul(R, R) = N THEN <<>> ELSE BOne)
       IN  FRound(0, M, (e \div 2) - 29)

(***************************************************************************)
(* Library functions outside the repository, as table interpolations in    *)
(* fixed point.  FracBits is the scale of the table values.                *)
(***************************************************************************)
FracBits == 20

\* floor(|x| * 2^bits) for a finite x of magnitude below 2^11
AbsFixed(x, bits) ==
  IF IsZero(x) THEN 0
  ELSE IF x.e + bits >= 0 THEN BToInt(BShl(x.m, x.e + bits))
  ELSE BToInt(BShr(x.m, -(x.e + bits)))

\* the Number n * 2^(-bits)
FromFixed(n, bits) ==
  FRound(IF n < 0 THEN 1 ELSE 0, BFromInt(IF n < 0 THEN -n ELSE n), -bits)

IsHuge(x) == IsInf(x) \/ (IsFinite(x) /\ ~IsZero(x) /\ x.e + MantBits > 11)

\* round(ln(1 + i/64) * 2^20), i = 0..64
LnTab ==
  <<
  0, 16257, 32266, 48035, 63570, 78877, 93965, 108839,
  123504, 137968, 152234, 166309, 180198, 193905, 207435, 220793,
  233983, 247009, 259875, 272585, 285143, 297552, 309817, 321939,
  333923, 345771, 357487, 369074, 380534, 391870, 403085, 414181,
  425161, 436027, 446782, 457427, 467966, 478400, 488731, 498961,
  509092, 519126, 529065, 538911, 548665, 558330, 567906, 577395,
  586800, 596120, 605359, 614517, 623596, 632596, 641520, 650369,
  659144, 667846, 676476, 685036, 693527, 701949, 710304, 718593,
  726817
  >>

\* Math.log
NumLog(x) ==
  IF IsNaN(x) THEN NaN
  ELSE IF IsZero(x) THEN Inf(1)
  ELSE IF x.s = 1 THEN NaN
  ELSE IF IsInf(x) THEN x
  ELSE LET top  == BToInt(BShr(x.m, MantBits - 17)) - 2 ^ 16
           i    == top \div 1024
           f    == top % 1024
           lnf  == LnTab[i + 1] + ((LnTab[i + 2] - LnTab[i + 1]) * f) \div 1024
       IN  FromFixed((x.e + MantBits - 1) * LnTab[65] + lnf, FracBits)

\* round(exp(i/64) * 2^20), i = 0..45
ExpTab ==
  <<
  1048576, 1065089, 1081861, 1098898, 1116203, 1133781, 1151635, 1169771,
  1188192, 1206904, 1225910, 1245215, 1264824, 1284742, 1304974, 1325524,
  1346398, 1367601, 1389138, 1411013, 1433233, 1455804, 1478729, 1502016,
  1525669, 1549695, 1574099, 1598887, 1624066, 1649642, 1675620, 1702007,
  1728810, 1756034, 1783688, 1811777, 1840308, 1869289, 1898726, 1928626,
  1958998, 1989848, 2021183, 2053012, 2085342, 2118182
  >>

\* round(ln(2) * 2^16)
Ln2Fixed == LnTab[65] \div 16

\* Math.exp
NumExp(x) ==
  IF IsNaN(x) THEN NaN
  ELSE IF IsHuge(x) THEN (IF x.s = 1 THEN Zero ELSE Inf(0))
  ELSE LET a  == AbsFixed(x, 16)
           X  == IF x.s = 1 /\ ~IsZero(x) THEN -a ELSE a
           n  == X \div Ln2Fixed
           r  == X % Ln2Fixed
           i  == r \div 1024
           f  == r % 1024
           y  == ExpTab[i + 1] + ((ExpTab[i + 2] - ExpTab[i + 1]) * f) \div 1024
       IN  IF n < -(ExpLimit + MantBits) THEN Zero
           ELSE FRound(0, BFromInt(y), n - FracBits)

\* round(erf(i/32) * 2^20), i = 0..128
ErfTab ==
  <<
  0, 36963, 73853, 110600, 147132, 183380, 219276, 254753,
  289749, 324203, 358056, 391254, 423747, 455488, 486432, 516543,
  545784, 574125, 601541, 628010, 653515, 678044, 701586, 724139,
  745701, 766276, 785870, 804494, 822162, 838890, 854697, 869604,
  883636, 896817, 909176, 920742, 931543, 941610, 950976, 959672,
  967731, 975184, 982063, 988401, 994228, 999576, 1004474, 1008950,
  1013035, 1016753, 1020133, 1023198, 1025973, 1028479, 1030739, 1032773,
  1034600, 1036238, 1037703, 1039011, 1040177, 1041214, 1042134, 1042950,
  1043671, 1044307, 1044868, 1045361, 1045793, 1046172, 1046502, 1046791,
  1047042, 1047260, 1047450, 1047614, 1047755, 1047877, 1047982, 1048072,
  1048149, 1048215, 1048272, 1048320, 1048361, 1048395, 1048425, 1048450,
  1048470, 1048488, 1048503, 1048515, 1048526, 1048535, 1048542, 1048548,
  1048553, 1048557, 1048560, 1048563, 1048566, 1048568, 1048569, 1048570,
  1048571, 1048572, 1048573, 1048574, 1048574, 1048574, 1048575, 1048575,
  1048575, 1048575, 1048576, 1048576, 1048576, 1048576, 1048576, 1048576,
  1048576, 1048576, 1048576, 1048576, 1048576, 1048576, 1048576, 1048576,
  1048576
  >>

\* mathjs erf: odd, NaN for NaN, 1 from 4 on in this model
NumErf(x) ==
  IF IsNaN(x) THEN NaN
  ELSE IF IsZero(x) THEN Zero
  ELSE LET big == IsInf(x) \/ x.e + MantBits > 3
           X   == AbsFixed(x, 15)
           i   == X \div 1024
           f   == X % 1024
           y   == IF big \/ i >= 128 THEN ErfTab[129]
                  ELSE ErfTab[i + 1] + ((ErfTab[i + 2] - ErfTab[i + 1]) * f) \div 1024
       IN  FromFixed(IF x.s = 1 THEN -y ELSE y, FracBits)

\* round(cos(pi/2 * i/64) * 2^20), i = 0..64
CosTab ==
  <<
  1048576, 1048260, 1047313, 1045735, 1043527, 1040690, 1037227, 1033138,
  1028428, 1023098, 1017151, 1010592, 1003425, 995652, 987281, 978314,
  968758, 958618, 947901, 936614, 924761, 912352, 899394, 885893,
  871859, 857300, 842224, 826641, 810560, 793991, 776944, 759428,
  741455, 723036, 704181, 684901, 665210, 645117, 624636, 603779,
  582558, 560986, 539076, 516841, 494295, 471452, 448324, 424926,
  401273, 377377, 353255, 328919, 304386, 279669, 254783, 229744,
  204567, 179267, 153858, 128357, 102778, 77138, 51451, 25733,
  0
  >>

\* cos of f/4096 of a quarter turn, 0 <= f <= 4096, scaled by 2^20
QuarterCos(f) ==
  LET i == f \div 64
      g == f % 64
  IN  IF i >= 64 THEN CosTab[65]
      ELSE CosTab[i + 1] + ((CosTab[i + 2] - CosTab[i + 1]) * g) \div 64

\* Math.cos: even, NaN for NaN and the infinities; the argument is reduced
\* modulo round(2 pi * 2^16) in fixed point and looked up by quadrant (the
\* table ends below 2^11, beyond the arguments 2 * pi * u2 < 2 * pi it is for)
NumCos(x) ==
  IF IsNaN(x) \/ IsInf(x) THEN NaN
  ELSE IF IsHuge(x) THEN FromFixed(CosTab[1], FracBits)
  ELSE LET X == AbsFixed(x, 16) % 411775
           p == (X * 4096) \div 102944
           q == (p \div 4096) % 4
           f == p % 4096
           y == CASE q = 0 -> QuarterCos(f)
                  [] q = 1 -> -QuarterCos(4096 - f)
                  [] q = 2 -> -QuarterCos(f)
                  [] q = 3 -> QuarterCos(4096 - f)
       IN  FromFixed(y, FracBits)

(***************************************************************************)
(* Eval(f, a) is the value of the call of f with the arguments a: f an     *)
(* arithmetic operation, a library function or an exported function of the *)
(* engine.  It is defined after the engine; every operation of the program *)
(* is evaluated through it.                                                *)
(***************************************************************************)
RECURSIVE Eval(_, _)

FromInt(n) == Eval("Number", <<n>>)

FAdd(x, y) == Eval("+", <<x, y>>)

FSub(x, y) == FAdd(x, FNeg(y))

FMul(x, y) == Eval("*", <<x, y>>)

FDiv(x, y) == Eval("/", <<x, y>>)

MathRound(x) == Eval("Math.round", <<x>>)

MathSqrt(x) == Eval("Math.sqrt", <<x>>)

MathLog(x) == Eval("Math.log", <<x>>)

MathExp(x) == Eval("Math.exp", <<x>>)

erf(x) == Eval("erf", <<x>>)

FMod(x, y) == Eval("%", <<x, y>>)

MathCos(x) == Eval("Math.cos", <<x>>)

\* the Number a decimal literal n/d denotes (n, d integers, d > 0)
Dec(n, d) == FDiv(FromInt(n), FromInt(d))

\* the numeric literals of the source
One == FromInt(1)

Two == FromInt(2)

Half == Dec(5, 10)

Hundred == FromInt(100)

DaysPerYear == FromInt(365)

\* Math.sqrt(2)
Sqrt2 == MathSqrt(Two)

\* Math.PI: 7074237752028440 * 2^-51
MathPI == [k |-> "fin", s |-> 0, e |-> -51, m |-> <<11544, 10376, 2029, 201>>]

(***************************************************************************)
(* src/utils/BlackScholes.js                                               *)
(***************************************************************************)
\* const cdf = (x) => 0.5 * (1 + erf(x / Math.sqrt(2)))
cdf(x) == FMul(Half, FAdd(One, erf(FDiv(x, Sqrt2))))

\* calculateD1 with the moneyness inverted: Math.log(K / S)
calculateD1Inverted(S, K, r, T, sigma) ==
  FDiv(FAdd(MathLog(FDiv(K, S)),
            FMul(FAdd(r, FDiv(FMul(sigma, sigma), Two)), T)),
       FMul(sigma, MathSqrt(T)))

\* calculateD1 with a guard the code does not have: d1 = 0 when sigma is 0
calculateD1Guarded(S, K, r, T, sigma) ==
  IF sigma.k = "fin" /\ sigma.m = <<>> THEN Zero
  ELSE FDiv(FAdd(MathLog(FDiv(S, K)),
                 FMul(FAdd(r, FDiv(FMul(sigma, sigma), Two)), T)),
            FMul(sigma, MathSqrt(T)))

\* (Math.log(S / K) + (r + sigma * sigma / 2) * T) / (sigma * Math.sqrt(T))
calculateD1(S, K, r, T, sigma) ==
  FDiv(FAdd(MathLog(FDiv(S, K)),
            FMul(FAdd(r, FDiv(FMul(sigma, sigma), Two)), T)),
       FMul(sigma, MathSqrt(T)))

\* calculateD2 with the volatility term added
calculateD2Plus(d1, sigma, T) == FAdd(d1, FMul(sigma, MathSqrt(T)))

\* d1 - sigma * Math.sqrt(T)
calculateD2(d1, sigma, T) == FSub(d1, FMul(sigma, MathSqrt(T)))

\* IntrinsicValue without the floor at 0
IntrinsicValueNoFloor(type, S, K) ==
  IF type = "call" THEN FSub(S, K) ELSE FSub(K, S)

\* Math.max(0, type === 'call' ? S - K : K - S)
IntrinsicValue(type, S, K) ==
  MathMax(Zero, IF type = "call" THEN FSub(S, K) ELSE FSub(K, S))

\* calculateOptionPrice with the put's strike left undiscounted
calculateOptionPriceUndiscountedPut(type, S, K, r, T, sigma) ==
  IF FLe(T, Zero) THEN IntrinsicValue(type, S, K)
  ELSE LET d1 == calculateD1(S, K, r, T, sigma)
           d2 == calculateD2(d1, sigma, T)
           Kd == FMul(K, MathExp(FMul(FNeg(r), T)))
       IN  IF type = "call"
           THEN FSub(FMul(S, cdf(d1)), FMul(Kd, cdf(d2)))
           ELSE FSub(FMul(K, cdf(FNeg(d2))), FMul(S, cdf(FNeg(d1))))

calculateOptionPrice(type, S, K, r, T, sigma) ==
  IF FLe(T, Zero) THEN IntrinsicValue(type, S, K)
  ELSE LET d1 == calculateD1(S, K, r, T, sigma)
           d2 == calculateD2(d1, sigma, T)
           \* K * Math.exp(-r * T)
           Kd == FMul(K, MathExp(FMul(FNeg(r), T)))
       IN  IF type = "call"
           THEN FSub(FMul(S, cdf(d1)), FMul(Kd, cdf(d2)))
           ELSE FSub(FMul(Kd, cdf(FNeg(d2))), FMul(S, cdf(FNeg(d1))))

\* Math.sqrt(2 * Math.PI)
SqrtTwoPi == MathSqrt(FMul(Two, MathPI))

\* const pdf = (x) => Math.exp(-0.5 * x * x) / Math.sqrt(2 * Math.PI)
pdf(x) ==
  FDiv(MathExp(FMul(FMul(FNeg(Half), x), x)), SqrtTwoPi)

\* ExpiryGreeks with the test intrinsicValue >= 0
ExpiryGreeksInclusive(type, S, K) ==
  LET intrinsicValue == IntrinsicValue(type, S, K)
  IN  [delta |-> IF FGe(intrinsicValue, Zero)
                 THEN (IF type = "call" THEN One ELSE FNeg(One))
                 ELSE Zero,
       gamma |-> Zero, theta |-> Zero, vega |-> Zero, rho |-> Zero]

\* the T <= 0 branch of calculateGreeks: delta from the sign of the
\* intrinsic value, every other Greek 0
ExpiryGreeks(type, S, K) ==
  LET intrinsicValue == IntrinsicValue(type, S, K)
  IN  [delta |-> IF FGt(intrinsicValue, Zero)
                 THEN (IF type = "call" THEN One ELSE FNeg(One))
                 ELSE Zero,
       gamma |-> Zero, theta |-> Zero, vega |-> Zero, rho |-> Zero]

\* DeltaAt with the put's delta taken as the call's
DeltaAtIgnoringType(type, d1) == cdf(d1)

\* type === 'call' ? cdf(d1) : cdf(d1) - 1
DeltaAt(type, d1) == IF type = "call" THEN cdf(d1) ELSE FSub(cdf(d1), One)

calculateGreeks(type, S, K, r, T, sigma) ==
  IF FLe(T, Zero)
  THEN ExpiryGreeks(type, S, K)
  ELSE LET d1    == calculateD1(S, K, r, T, sigma)
           d2    == calculateD2(d1, sigma, T)
           sqrtT == MathSqrt(T)
           disc  == MathExp(FMul(FNeg(r), T))
           delta == DeltaAt(type, d1)
           gamma == FDiv(pdf(d1), FMul(FMul(S, sigma), sqrtT))
           \* -S * pdf(d1) * sigma / (2 * Math.sqrt(T))
           decay == FDiv(FMul(FMul(FNeg(S), pdf(d1)), sigma),
                         FMul(Two, sqrtT))
           \* r * K * Math.exp(-r * T)
           rKd   == FMul(FMul(r, K), disc)
           theta == IF type = "call"
                    THEN FSub(decay, FMul(rKd, cdf(d2)))
                    ELSE FAdd(decay, FMul(rKd, cdf(FNeg(d2))))
           vega  == FDiv(FMul(FMul(S, sqrtT), pdf(d1)), Hundred)
           rho   == IF type = "call"
                    THEN FDiv(FMul(FMul(FMul(K, T), disc), cdf(d2)), Hundred)
                    ELSE FDiv(FMul(FMul(FMul(FNeg(K), T), disc), cdf(FNeg(d2))),
                              Hundred)
       IN  [delta |-> delta, gamma |-> gamma,
            theta |-> FDiv(theta, DaysPerYear), vega |-> vega, rho |-> rho]

(***************************************************************************)
(* The sweep loops.  A loop that would run for ever is cut at LoopCap      *)
(* iterations; no input of this model reaches the cap.                     *)
(***************************************************************************)
MaxPoints == 5

\* the default of the parameter points
DefaultPoints == 50

LoopCap == 2 * DefaultPoints + MaxPoints

\* SweepFrom running one step past the upper bound
RECURSIVE SweepFromOvershoot(_, _, _, _)
SweepFromOvershoot(price, maxPrice, step, acc) ==
  IF FLe(price, FAdd(maxPrice, step)) /\ Len(acc) < LoopCap
  THEN SweepFromOvershoot(FAdd(price, step), maxPrice, step, Append(acc, price))
  ELSE acc

\* for (let price = minPrice; price <= maxPrice; price += step) push(price)
RECURSIVE SweepFrom(_, _, _, _)
SweepFrom(price, maxPrice, step, acc) ==
  IF FLe(price, maxPrice) /\ Len(acc) < LoopCap
  THEN SweepFrom(FAdd(price, step), maxPrice, step, Append(acc, price))
  ELSE acc

generatePriceChartData(type, S, K, r, T, sigma, range, points) ==
  LET minPrice == FMul(S, FSub(One, range))
      maxPrice == FMul(S, FAdd(One, range))
      step     == FDiv(FSub(maxPrice, minPrice), FSub(points, One))
      prices   == SweepFrom(minPrice, maxPrice, step, <<>>)
  IN  [i \in 1..Len(prices) |->
         [underlyingPrice |-> prices[i],
          optionPrice |-> calculateOptionPrice(type, prices[i], K, r, T, sigma)]]

\* RoundedVol without the rounding
RoundedVolRaw(vol) == vol

\* RoundedVol rounding to three decimals
RoundedVolThousandths(vol) ==
  FDiv(MathRound(FMul(vol, FromInt(1000))), FromInt(1000))

\* Math.round(vol * 100) / 100
RoundedVol(vol) == FDiv(MathRound(FMul(vol, Hundred)), Hundred)

\* the literal 0.0001
VolEpsilon == Dec(1, 10000)

\* for (let vol = minVol; vol <= maxVol + 0.0001; vol += volStep)
\*   push(roundedVol)
RECURSIVE VolSweepFrom(_, _, _, _)
VolSweepFrom(vol, maxVol, volStep, acc) ==
  IF FLe(vol, FAdd(maxVol, VolEpsilon)) /\ Len(acc) < LoopCap
  THEN VolSweepFrom(FAdd(vol, volStep), maxVol, volStep,
                    Append(acc, RoundedVol(vol)))
  ELSE acc

generateVolatilityChartData(type, S, K, r, T, minVol, maxVol, volStep, range, points) ==
  LET minPrice  == FMul(K, FSub(One, range))
      maxPrice  == FMul(K, FAdd(One, range))
      priceStep == FDiv(FSub(maxPrice, minPrice), FSub(points, One))
      prices    == SweepFrom(minPrice, maxPrice, priceStep, <<>>)
      vols      == VolSweepFrom(minVol, maxVol, volStep, <<>>)
  IN  [j \in 1..Len(vols) |->
         [volatility |-> vols[j],
          data |-> [i \in 1..Len(prices) |->
                      [underlyingPrice |-> prices[i],
                       optionPrice |->
                         calculateOptionPrice(type, prices[i], K, r, T, vols[j]),
                       volatility |-> vols[j]]]]]

\* generateDeltaVolatilityData leaving the volatility field a fraction
generateDeltaVolatilityDataFraction(type, K, r, T, minVol, maxVol, volStep) ==
  LET vols == VolSweepFrom(minVol, maxVol, volStep, <<>>)
  IN  [j \in 1..Len(vols) |->
         LET greeks == calculateGreeks(type, K, K, r, T, vols[j])
         IN  [volatility |-> vols[j],
              delta |-> greeks.delta, gamma |-> greeks.gamma,
              theta |-> greeks.theta, vega |-> greeks.vega, rho |-> greeks.rho]]

generateDeltaVolatilityData(type, K, r, T, minVol, maxVol, volStep) ==
  LET vols == VolSweepFrom(minVol, maxVol, volStep, <<>>)
  IN  [j \in 1..Len(vols) |->
         LET greeks == calculateGreeks(type, K, K, r, T, vols[j])
         IN  [volatility |-> FMul(vols[j], Hundred),
              delta |-> greeks.delta, gamma |-> greeks.gamma,
              theta |-> greeks.theta, vega |-> greeks.vega, rho |-> greeks.rho]]

generateDeltaUnderlyingData(type, S, K, r, T, minVol, maxVol, volStep, range, points) ==
  LET minPrice  == FMul(K, FSub(One, range))
      maxPrice  == FMul(K, FAdd(One, range))
      priceStep == FDiv(FSub(maxPrice, minPrice), FSub(points, One))
      prices    == SweepFrom(minPrice, maxPrice, priceStep, <<>>)
      vols      == VolSweepFrom(minVol, maxVol, volStep, <<>>)
  IN  [j \in 1..Len(vols) |->
         [volatility |-> vols[j],
          data |-> [i \in 1..Len(prices) |->
                      [underlyingPrice |-> prices[i],
                       delta |-> calculateGreeks(type, prices[i], K, r, T, vols[j]).delta,
                       volatility |-> vols[j]]]]]

(***************************************************************************)
(* src/components/BrownianMotion.js.  timeSteps and the loop counter t are *)
(* integers here and Numbers where the code computes with them.            *)
(***************************************************************************)
\* random() reading the clock as well
randomClocked(seed) ==
  LET next == FMod(FAdd(FMul(FAdd(seed, FromInt(now % 7)), FromInt(9301)),
                        FromInt(49297)), FromInt(233280))
  IN  [seed |-> next, z |-> FDiv(next, FromInt(233280))]

\* random() advancing the generator twice
randomTwice(seed) ==
  LET once == FMod(FAdd(FMul(seed, FromInt(9301)), FromInt(49297)),
                   FromInt(233280))
      next == FMod(FAdd(FMul(once, FromInt(9301)), FromInt(49297)),
                   FromInt(233280))
  IN  [seed |-> next, z |-> FDiv(next, FromInt(233280))]

\* the closure random() of generatePath: the generator state it leaves and
\* the Box-Muller value it returns
random(seed) ==
  LET next == FMod(FAdd(FMul(seed, FromInt(9301)), FromInt(49297)),
                   FromInt(233280))
      rnd  == FDiv(next, FromInt(233280))
      u1   == rnd
      u2   == FMod(FAdd(FDiv(next, FromInt(233280)), Dec(1, 10)), One)
      z    == FMul(MathSqrt(FMul(FromInt(-2), MathLog(u1))),
                   MathCos(FMul(FMul(Two, MathPI), u2)))
  IN  [seed |-> next, z |-> z]

\* the parameters and locals of generatePath before its loop
PathStart(drift, diffusion, timeHorizon, timeSteps, initialValue, seed) ==
  LET dt == FDiv(timeHorizon, FromInt(timeSteps))
  IN  [drift |-> drift, diffusion |-> diffusion, timeSteps |-> timeSteps,
       dt |-> dt, sqrtDt |-> MathSqrt(dt),
       seed |-> seed, currentValue |-> initialValue, t |-> 1,
       path |-> <<[time |-> Zero, value |-> initialValue]>>]

\* one pass of the loop of generatePath
PathStep(f) ==
  LET time == FMul(FromInt(f.t), f.dt)
      draw == random(f.seed)
      randomComponent ==
        FMul(FMul(FMul(f.diffusion, f.currentValue), f.sqrtDt), draw.z)
      driftComponent  == FMul(FMul(f.drift, f.currentValue), f.dt)
      value == FAdd(FAdd(f.currentValue, driftComponent), randomComponent)
  IN  [f EXCEPT !.seed = draw.seed, !.currentValue = value, !.t = @ + 1,
                !.path = Append(@, [time |-> time, value |-> value])]

\* for (let t = 1; t <= timeSteps; t++) ...; return path
RECURSIVE PathFrom(_)
PathFrom(f) ==
  IF f.t <= f.timeSteps /\ Len(f.path) >= 0 THEN PathFrom(PathStep(f))
  ELSE f.path

generatePath(drift, diffusion, timeHorizon, timeSteps, initialValue, seed) ==
  PathFrom(PathStart(drift, diffusion, timeHorizon, timeSteps, initialValue,
                     seed))

\* generateExpectedPath without the drift
generateExpectedPathFlat(drift, timeHorizon, timeSteps, initialValue) ==
  LET dt == FDiv(timeHorizon, FromInt(timeSteps))
  IN  [n \in 1..(timeSteps + 1) |->
         [time |-> FMul(FromInt(n - 1), dt), value |-> initialValue]]

generateExpectedPath(drift, timeHorizon, timeSteps, initialValue) ==
  LET dt == FDiv(timeHorizon, FromInt(timeSteps))
  IN  [n \in 1..(timeSteps + 1) |->
         LET time == FMul(FromInt(n - 1), dt)
         IN  [time |-> time,
              value |-> FMul(initialValue, MathExp(FMul(drift, time)))]]

\* the seed of every path taken from the clock alone
PathSeedClockOnly(index, clock) == FMod(FromInt(clock), FromInt(10000))

\* seed = i * 10000 + Date.now() % 10000
PathSeed(index, clock) ==
  FAdd(FMul(FromInt(index), FromInt(10000)),
       FMod(FromInt(clock), FromInt(10000)))

\* the key `path${i + 1}` of path i
PathKey(index) == "path" \o ToString(index + 1)

\* path.map(point => ({ time: point.time, [`path${i + 1}`]: point.value }))
FormattedPath(path, index) ==
  [n \in 1..Len(path) |->
     [k \in {"time", PathKey(index)} |->
        IF k = "time" THEN path[n].time ELSE path[n].value]]

\* the merge writing the field expected whatever showExpectedPath is
MergedDataAlwaysExpected(allPaths, expectedPath, timeHorizon, timeSteps, paths, show) ==
  [n \in 1..(timeSteps + 1) |->
     [k \in {"time", "expected"} \cup {PathKey(index) : index \in 0..(paths - 1)} |->
        IF k = "time"
        THEN FMul(FromInt(n - 1), FDiv(timeHorizon, FromInt(timeSteps)))
        ELSE IF k = "expected" THEN expectedPath[n].value
        ELSE LET index == CHOOSE x \in 0..(paths - 1) : PathKey(x) = k
             IN  allPaths[index + 1][n][k]]]

\* the rows simulatePaths merges allPaths and expectedPath into
MergedData(allPaths, expectedPath, timeHorizon, timeSteps, paths, show) ==
  [n \in 1..(timeSteps + 1) |->
     [k \in {"time"} \cup {PathKey(index) : index \in 0..(paths - 1)}
            \cup (IF show THEN {"expected"} ELSE {}) |->
        IF k = "time"
        THEN FMul(FromInt(n - 1), FDiv(timeHorizon, FromInt(timeSteps)))
        ELSE IF k = "expected" THEN expectedPath[n].value
        ELSE LET index == CHOOSE x \in 0..(paths - 1) : PathKey(x) = k
             IN  allPaths[index + 1][n][k]]]

\* the Number the decimal literal n/100 denotes
Pct(n) == Dec(n, 100)

MaxPriceStep == 3

MaxTimeStep == 2

OptionTypes == {"call", "put"}

PriceLevels == {50 * i : i \in 1..MaxPriceStep}

TimeLevels == {50 * i : i \in 1..MaxTimeStep}

\* arguments of calculateOptionPrice and calculateGreeks: the valid domain
\* with the boundary T = 0 and a large price; T <= 0 with inputs outside the
\* domain; T > 0 with S = 0, sigma = 0 or the rate -1000 (typed as
\* -100000 %), at which exp(-r * T) overflows; T > 0 with every sign of S
\* and K and a zero or positive sigma
PointArgs ==
  [type : OptionTypes, S : PriceLevels, K : {50, 100}, r : {0, 5},
   T : TimeLevels \cup {0}, sigma : {20, 50}]
  \cup
  [type : OptionTypes, S : {90000, 100000}, K : {100000}, r : {20},
   T : {0, 1, 1000}, sigma : {1, 200}]
  \cup
  [type : OptionTypes, S : PriceLevels \cup {-50, 0}, K : {0, 50, 100}, r : {5},
   T : {-50, 0}, sigma : {0, 20}]
  \cup
  [type : OptionTypes, S : {0, 100}, K : {100}, r : {5, -100000},
   T : {100}, sigma : {0, 20}]
  \cup
  [type : OptionTypes, S : {-50, 0, 100}, K : {-50, 0, 100}, r : {0, 5},
   T : {100}, sigma : {0, 20}]

\* arguments of generatePriceChartData; the second set is App's call, which
\* leaves range and points to their defaults
PriceChartArgs ==
  [type : OptionTypes, S : PriceLevels, K : {100}, r : {5}, T : {0, 100},
   sigma : {20}, range : {30, 50, 80}, points : 2..MaxPoints]
  \cup
  [type : OptionTypes, S : {100}, K : {100}, r : {5}, T : {100},
   sigma : {20}, range : {30}, points : {DefaultPoints}]

\* arguments of generateVolatilityChartData and generateDeltaUnderlyingData;
\* <<20, 90, 10>> and <<10, 90, 10>> with range 80 and the default points are
\* the sweeps App asks for.  vols is <<minVol, maxVol, volStep>> in
\* hundredths, or in the unit given as fourth component: <<200, 210, 4, 1000>>
\* is the sweep from 0.2 to 0.21 in steps of 0.004
SeriesArgs ==
  [type : OptionTypes, S : {50, 100}, K : {100}, r : {5}, T : {0},
   vols : {<<20, 90, 10>>, <<10, 90, 10>>, <<5, 8, 1>>},
   range : {50, 80}, points : 2..MaxPoints]
  \cup
  [type : OptionTypes, S : {50, 100}, K : {100}, r : {5}, T : {100},
   vols : {<<20, 40, 10>>}, range : {50}, points : 2..MaxPoints]
  \cup
  [type : OptionTypes, S : {100}, K : {100}, r : {5}, T : {0},
   vols : {<<20, 90, 10>>, <<10, 90, 10>>}, range : {80},
   points : {DefaultPoints}]
  \cup
  [type : OptionTypes, S : {100}, K : {100}, r : {5}, T : {0},
   vols : {<<200, 210, 4, 1000>>, <<300, 303, 1, 1000>>}, range : {50},
   points : {2}]

\* arguments of generateDeltaVolatilityData; <<5, 100, 1>> is the sweep of
\* its default parameters minVol = 0.05, maxVol = 1.0, volStep = 0.01
DeltaVolArgs ==
  [type : OptionTypes, K : PriceLevels, r : {5}, T : TimeLevels \cup {0},
   vols : {<<20, 40, 10>>, <<5, 8, 1>>, <<10, 90, 10>>}]
  \cup
  [type : OptionTypes, K : {100}, r : {5}, T : {100}, vols : {<<5, 100, 1>>}]

PriceOf(a) ==
  calculateOptionPrice(a.type, FromInt(a.S), FromInt(a.K), Pct(a.r), Pct(a.T),
                       Pct(a.sigma))

GreeksOf(a) ==
  calculateGreeks(a.type, FromInt(a.S), FromInt(a.K), Pct(a.r), Pct(a.T),
                  Pct(a.sigma))

\* component k of vols as the decimal literal it stands for
VolArg(vols, k) ==
  IF Len(vols) = 4 THEN Dec(vols[k], vols[4]) ELSE Pct(vols[k])

PriceChartOf(a) ==
  generatePriceChartData(a.type, FromInt(a.S), FromInt(a.K), Pct(a.r), Pct(a.T),
                         Pct(a.sigma), Pct(a.range), FromInt(a.points))

VolatilityChartOf(a) ==
  generateVolatilityChartData(a.type, FromInt(a.S), FromInt(a.K), Pct(a.r),
                              Pct(a.T), VolArg(a.vols, 1), VolArg(a.vols, 2),
                              VolArg(a.vols, 3), Pct(a.range),
                              FromInt(a.points))

DeltaUnderlyingOf(a) ==
  generateDeltaUnderlyingData(a.type, FromInt(a.S), FromInt(a.K), Pct(a.r),
                              Pct(a.T), VolArg(a.vols, 1), VolArg(a.vols, 2),
                              VolArg(a.vols, 3), Pct(a.range),
                              FromInt(a.points))

DeltaVolatilityOf(a) ==
  generateDeltaVolatilityData(a.type, FromInt(a.K), Pct(a.r), Pct(a.T),
                              Pct(a.vols[1]), Pct(a.vols[2]), Pct(a.vols[3]))

(***************************************************************************)
(* src/components/InputPanel.js and src/App.js.  The text of an input      *)
(* field is a sequence of characters.                                      *)
(***************************************************************************)
Digits == <<"0", "1", "2", "3", "4", "5", "6", "7", "8", "9">>

IsDigit(c) == \E d \in 1..10 : Digits[d] = c

DigitValue(c) == (CHOOSE d \in 1..10 : Digits[d] = c) - 1

\* the length of the run of digits of text that starts at position i
RECURSIVE DigitRun(_, _)
DigitRun(text, i) ==
  IF i <= Len(text) /\ IsDigit(text[i]) THEN 1 + DigitRun(text, i + 1) ELSE 0

\* the number written by the n digits of text from position i
RECURSIVE NatOf(_, _, _)
NatOf(text, i, n) ==
  IF n = 0 THEN 0
  ELSE 10 * NatOf(text, i, n - 1) + DigitValue(text[i + n - 1])

\* parseFloat on the texts of a number field: an optional minus sign, digits,
\* an optional fraction; the longest such prefix is converted and a text
\* without one (the empty field) gives NaN.  Exponents are not modelled.
parseFloat(text) ==
  LET neg   == Len(text) > 0 /\ text[1] = "-"
      start == IF neg THEN 2 ELSE 1
      whole == DigitRun(text, start)
      dot   == start + whole
      frac  == IF dot <= Len(text) /\ text[dot] = "."
               THEN DigitRun(text, dot + 1) ELSE 0
      n     == NatOf(text, start, whole) * 10^frac + NatOf(text, dot + 1, frac)
  IN  IF whole + frac = 0 THEN NaN
      ELSE Dec(IF neg THEN -n ELSE n, 10^frac)

PercentFields == {"volatility", "riskFreeRate"}

\* handleChange: the value it passes to onParameterChange
ParsedValue(name, value) ==
  LET parsedValue == parseFloat(value)
  IN  IF name \in PercentFields THEN FDiv(parsedValue, Hundred) ELSE parsedValue

\* the decimal digits of the natural number n
RECURSIVE DigitsOf(_)
DigitsOf(n) ==
  IF n < 10 THEN <<Digits[n + 1]>>
  ELSE Append(DigitsOf(n \div 10), Digits[(n % 10) + 1])

\* Number.prototype.toFixed(f) for f >= 1 and |x| below 10^7: the integer n
\* nearest to |x| * 10^f (the exact value of x; the larger n at a tie), written
\* with f digits after the point and the sign of x
toFixed(x, f) ==
  IF IsNaN(x) THEN <<"N", "a", "N">>
  ELSE LET M == BMulSmall(x.m, 10^f)
           n == IF IsZero(x) THEN 0
                ELSE IF x.e >= 0 THEN BToInt(BShl(M, x.e))
                ELSE IF -x.e > 4 * MantBits THEN 0
                ELSE BToInt(BShr(BAdd(BShl(M, 1), BShl(BOne, -x.e)), 1 - x.e))
           whole == DigitsOf(n \div 10^f)
           frac  == [d \in 1..f |-> Digits[((n \div 10^(f - d)) % 10) + 1]]
       IN  (IF x.s = 1 THEN <<"-">> ELSE <<>>) \o whole \o <<".">> \o frac

\* displayValue: the text shown for a percent field, the stored Number for
\* any other field
displayValue(name, value) ==
  IF name \in PercentFields THEN toFixed(FMul(value, Hundred), 2) ELSE value

\* whether for (let price = minPrice; price <= maxPrice; price += step) ends:
\* it does not when an addition leaves price as it is while the condition
\* holds (passes counts the passes made; a loop still running after LoopCap
\* passes is outside this model and counted as not ending)
RECURSIVE SweepEnds(_, _, _, _)
SweepEnds(price, maxPrice, step, passes) ==
  IF ~FLe(price, maxPrice) THEN TRUE
  ELSE IF passes >= LoopCap \/ FAdd(price, step) = price THEN FALSE
  ELSE SweepEnds(FAdd(price, step), maxPrice, step, passes + 1)

\* the price loop of a chart generator around center (S or K)
PriceSweepEnds(center, range, points) ==
  LET minPrice == FMul(center, FSub(One, range))
      maxPrice == FMul(center, FAdd(One, range))
      step     == FDiv(FSub(maxPrice, minPrice), FSub(points, One))
  IN  SweepEnds(minPrice, maxPrice, step, 0)

\* the default parameters of App
DefaultParameters ==
  [optionType |-> "call", underlyingPrice |-> FromInt(100),
   strikePrice |-> FromInt(100), timeToMaturity |-> FromInt(1),
   volatility |-> Pct(20), riskFreeRate |-> Pct(5)]

\* the value an engine function returns for the arguments a, left
\* unevaluated: the engine functions are functions of their arguments, so
\* two such values are equal when function and arguments are
Returned(f, a) == [returned |-> f, arguments |-> a]

\* the effect of App on the parameters p: whether it ends (its first two
\* calls have no loop; the price loop of generatePriceChartData is around S
\* with the default range 0.3, those of the two series generators around K
\* with range 0.8, all with the default 50 points; the volatility loops run
\* between literals) and what it passes to setOptionPrice, setGreeks,
\* setPriceChartData, setVolatilityChartData and setDeltaUnderlyingData
AppEffect(p) ==
  LET point == <<p.optionType, p.underlyingPrice, p.strikePrice,
                 p.riskFreeRate, p.timeToMaturity, p.volatility>>
      sweep == <<p.optionType, p.underlyingPrice, p.strikePrice,
                 p.riskFreeRate, p.timeToMaturity>>
  IN  IF ~(/\ PriceSweepEnds(p.underlyingPrice, Pct(30), FromInt(DefaultPoints))
           /\ PriceSweepEnds(p.strikePrice, Pct(80), FromInt(DefaultPoints)))
      THEN [ends |-> FALSE]
      ELSE [ends |-> TRUE,
            optionPrice |-> Returned("calculateOptionPrice", point),
            greeks |-> Returned("calculateGreeks", point),
            priceChartData |-> Returned("generatePriceChartData", point),
            volatilityChartData |->
              Returned("generateVolatilityChartData",
                       sweep \o <<Pct(20), Pct(90), Pct(10), Pct(80)>>),
            deltaUnderlyingData |->
              Returned("generateDeltaUnderlyingData",
                       sweep \o <<Pct(10), Pct(90), Pct(10), Pct(80)>>)]

\* the setters of the effect on the state s of App: every output is
\* committed once the effect has run to its end; a turn that does not end
\* commits nothing
AppCommit(s) ==
  LET out == AppEffect(s.parameters)
  IN  IF out.ends
      THEN [s EXCEPT !.optionPrice = out.optionPrice,
                     !.greeks = out.greeks,
                     !.priceChartData = out.priceChartData,
                     !.volatilityChartData = out.volatilityChartData,
                     !.deltaUnderlyingData = out.deltaUnderlyingData,
                     !.turn = "idle"]
      ELSE [s EXCEPT !.turn = "hung"]

(***************************************************************************)
(* DeltaApproximationChart (src/components/NormalDistribution.js from line *)
(* 319).  s is the state of the component with the parameters of the       *)
(* render.                                                                 *)
(***************************************************************************)
\* PRICE_SHIFT = 0.01
PriceShift == Dec(1, 100)

\* the point the loop of the effect builds at price
ApproximationPoint(p, price) ==
  LET optionPriceMinus ==
        calculateOptionPrice(p.optionType, FSub(price, PriceShift),
                             p.strikePrice, p.riskFreeRate, p.timeToMaturity,
                             p.volatility)
      optionPricePlus ==
        calculateOptionPrice(p.optionType, FAdd(price, PriceShift),
                             p.strikePrice, p.riskFreeRate, p.timeToMaturity,
                             p.volatility)
  IN  [underlyingPrice |-> price,
       optionPrice |->
         calculateOptionPrice(p.optionType, price, p.strikePrice,
                              p.riskFreeRate, p.timeToMaturity, p.volatility),
       approximateDelta |->
         FDiv(FSub(optionPricePlus, optionPriceMinus), FMul(Two, PriceShift)),
       minus |-> [x |-> FSub(price, PriceShift), y |-> optionPriceMinus],
       plus |-> [x |-> FAdd(price, PriceShift), y |-> optionPricePlus]]

\* the effect leaving zoomedView as it is
ApproximationEffectKeepingZoom(s) ==
  IF s.parameters = <<>> THEN s
  ELSE LET p        == s.parameters[1]
           range    == FMul(p.strikePrice, Dec(4, 10))
           minPrice == MathMax(One, FSub(p.underlyingPrice, range))
           maxPrice == FAdd(p.underlyingPrice, range)
           step     == FDiv(FSub(maxPrice, minPrice), FromInt(30))
           prices   == SweepFrom(minPrice, maxPrice, step, <<>>)
           points   == [i \in 1..Len(prices) |-> ApproximationPoint(p, prices[i])]
           Shown(pt) ==
             \/ FLt(FAbs(FSub(pt.underlyingPrice, p.underlyingPrice)), PriceShift)
             \/ FLt(FAbs(FSub(pt.underlyingPrice, FMul(p.strikePrice, Dec(8, 10)))), step)
             \/ FLt(FAbs(FSub(pt.underlyingPrice, p.strikePrice)), step)
             \/ FLt(FAbs(FSub(pt.underlyingPrice, FMul(p.strikePrice, Dec(12, 10)))), step)
           deltaApproxPoints == SelectSeq(points, Shown)
           Current(pt) ==
             FLt(FAbs(FSub(pt.underlyingPrice, p.underlyingPrice)), step)
           found == SelectSeq(deltaApproxPoints, Current)
       IN  [s EXCEPT
              !.chartData = [i \in 1..Len(points) |->
                               [underlyingPrice |-> points[i].underlyingPrice,
                                optionPrice |-> points[i].optionPrice,
                                approximateDelta |-> points[i].approximateDelta]],
              !.deltaPoints = deltaApproxPoints,
              !.selectedPoint = IF found # <<>> THEN <<found[1]>>
                                ELSE IF deltaApproxPoints # <<>>
                                THEN <<deltaApproxPoints[1]>> ELSE <<>>]

\* useEffect(() => {...}, [parameters]): nothing without parameters;
\* otherwise the chart data, the delta points, the point at the current
\* price (or the first delta point, or null) as selectedPoint, and
\* zoomedView false
ApproximationEffect(s) ==
  IF s.parameters = <<>> THEN s
  ELSE LET p        == s.parameters[1]
           range    == FMul(p.strikePrice, Dec(4, 10))
           minPrice == MathMax(One, FSub(p.underlyingPrice, range))
           maxPrice == FAdd(p.underlyingPrice, range)
           step     == FDiv(FSub(maxPrice, minPrice), FromInt(30))
           prices   == SweepFrom(minPrice, maxPrice, step, <<>>)
           points   == [i \in 1..Len(prices) |-> ApproximationPoint(p, prices[i])]
           Shown(pt) ==
             \/ FLt(FAbs(FSub(pt.underlyingPrice, p.underlyingPrice)), PriceShift)
             \/ FLt(FAbs(FSub(pt.underlyingPrice, FMul(p.strikePrice, Dec(8, 10)))), step)
             \/ FLt(FAbs(FSub(pt.underlyingPrice, p.strikePrice)), step)
             \/ FLt(FAbs(FSub(pt.underlyingPrice, FMul(p.strikePrice, Dec(12, 10)))), step)
           deltaApproxPoints == SelectSeq(points, Shown)
           Current(pt) ==
             FLt(FAbs(FSub(pt.underlyingPrice, p.underlyingPrice)), step)
           found == SelectSeq(deltaApproxPoints, Current)
       IN  [s EXCEPT
              !.chartData = [i \in 1..Len(points) |->
                               [underlyingPrice |-> points[i].underlyingPrice,
                                optionPrice |-> points[i].optionPrice,
                                approximateDelta |-> points[i].approximateDelta]],
              !.deltaPoints = deltaApproxPoints,
              !.selectedPoint = IF found # <<>> THEN <<found[1]>>
                                ELSE IF deltaApproxPoints # <<>>
                                THEN <<deltaApproxPoints[1]>> ELSE <<>>,
              !.zoomedView = FALSE]

(***************************************************************************)
(* DeltaTangentChart (src/components/DeltaTangentChart.js).  s is the      *)
(* state of the component with the parameters of the render.               *)
(***************************************************************************)
\* useEffect(() => {...}, [parameters]): nothing without parameters;
\* otherwise setChartData(data) and nothing else
TangentEffect(s) ==
  IF s.parameters = <<>> THEN s
  ELSE LET p        == s.parameters[1]
           range    == FMul(p.strikePrice, Dec(8, 10))
           minPrice == MathMax(One, FSub(p.strikePrice, range))
           maxPrice == FAdd(p.strikePrice, range)
           step     == FDiv(FSub(maxPrice, minPrice), FromInt(50))
           prices   == SweepFrom(minPrice, maxPrice, step, <<>>)
       IN  [s EXCEPT
              !.chartData =
                [i \in 1..Len(prices) |->
                   [underlyingPrice |-> prices[i],
                    optionPrice |->
                      calculateOptionPrice(p.optionType, prices[i],
                                           p.strikePrice, p.riskFreeRate,
                                           p.timeToMaturity, p.volatility),
                    delta |->
                      calculateGreeks(p.optionType, prices[i], p.strikePrice,
                                      p.riskFreeRate, p.timeToMaturity,
                                      p.volatility).delta]]]

\* calculateTangentLine(point) under the parameters p of the render: null
\* for a point whose underlyingPrice is falsy (0 or NaN)
calculateTangentLine(p, point) ==
  IF IsZero(point.underlyingPrice) \/ IsNaN(point.underlyingPrice) THEN <<>>
  ELSE LET slope     == point.delta
           intercept == FSub(point.optionPrice,
                             FMul(slope, point.underlyingPrice))
           range     == FMul(p.strikePrice, Dec(8, 10))
           x1        == MathMax(One, FSub(point.underlyingPrice,
                                          FDiv(range, Two)))
           x2        == FAdd(point.underlyingPrice, FDiv(range, Two))
       IN  << <<[underlyingPrice |-> x1,
                 tangentY |-> FAdd(FMul(slope, x1), intercept)],
                [underlyingPrice |-> x2,
                 tangentY |-> FAdd(FMul(slope, x2), intercept)]>> >>

\* handleMouseMove(e) with e.activePayload[0].payload = point
TangentMouseMove(s, point) ==
  [s EXCEPT !.hoverPoint = <<point>>,
            !.tangentLine = calculateTangentLine(s.parameters[1], point)]

(***************************************************************************)
(* NormalDistribution (src/components/NormalDistribution.js to line 317).  *)
(* The curves and the two displayed values are kept as the calls that      *)
(* produce them.                                                           *)
(***************************************************************************)
\* useEffect(() => { generateData() }, [mean, stdDev, xValue])
NormalEffect(s) ==
  [s EXCEPT !.pdfData = Returned("pdfPoints", <<s.mean, s.stdDev>>),
            !.cdfData = Returned("cdfPoints", <<s.mean, s.stdDev>>),
            !.pdfValue = Returned("calculatePDF", <<s.xValue, s.mean, s.stdDev>>),
            !.cdfValue = Returned("calculateCDF", <<s.xValue, s.mean, s.stdDev>>)]

\* the state after mount: useState defaults, then the effect
NormalMounted ==
  NormalEffect([mean |-> Zero, stdDev |-> One, xValue |-> Zero,
                pdfData |-> <<>>, cdfData |-> <<>>, pdfValue |-> <<>>,
                cdfValue |-> <<>>])

\* setMean(parseFloat(e.target.value)) and the effect that follows
NormalMeanChange(s, value) == NormalEffect([s EXCEPT !.mean = value])

\* setStdDev(parseFloat(e.target.value)) and the effect that follows
NormalStdDevChange(s, value) == NormalEffect([s EXCEPT !.stdDev = value])

\* setXValue(parseFloat(e.target.value)) and the effect that follows
NormalXValueChange(s, value) == NormalEffect([s EXCEPT !.xValue = value])

\* min={mean - 4 * stdDev} of the X Value slider
XSliderMin(s) == FSub(s.mean, FMul(FromInt(4), s.stdDev))

\* max={mean + 4 * stdDev} of the X Value slider
XSliderMax(s) == FAdd(s.mean, FMul(FromInt(4), s.stdDev))

\* a value the X Value slider can deliver: within [min, max]
XSliderOffers(s, x) == FLe(XSliderMin(s), x) /\ FLe(x, XSliderMax(s))

\* the value of a slider of step 0.1 at its position of tenths n, parsed
SliderValue(n) == Dec(n, 10)

(***************************************************************************)
(* The colours of the lines: the hue computed and the string made of it.   *)
(***************************************************************************)
\* getPathColor(index, total) of BrownianMotion
getPathColor(index, total) ==
  LET hue == FSub(FromInt(240),
                  FMul(FDiv(FromInt(index), FromInt(total - 1)), FromInt(240)))
  IN  <<"hsl(", hue, ", 80%, 50%)">>

\* getLineColor(index, total) of ResultsPanel
getLineColor(index, total) ==
  LET hue == FSub(FromInt(240),
                  FMul(FDiv(FromInt(index), FromInt(total - 1)), FromInt(240)))
  IN  <<"hsl(", hue, ", 80%, 50%)">>

\* the updater with the other fields taken from the initial parameters
ParametersUpdaterFromInitial(prev, name, value) ==
  [Eval("useState", <<>>) EXCEPT ![name] = value]

\* prev => ({...prev, [name]: value})
ParametersUpdater(prev, name, value) == [prev EXCEPT ![name] = value]

\* the parameters object a parent passes to a chart component, from the
\* values typed: whole dollars and hundredths
ChartParametersOf(a) ==
  [optionType |-> a.type, underlyingPrice |-> FromInt(a.S),
   strikePrice |-> FromInt(a.K), riskFreeRate |-> Pct(a.r),
   timeToMaturity |-> Pct(a.T), volatility |-> Pct(a.sigma)]

\* the parameter state of the component as the Numbers its functions get
MotionPathStart(m, index, clock) ==
  PathStart(Pct(m.drift), Pct(m.diffusion), Dec(m.timeHorizon, 10), m.timeSteps,
            FromInt(m.initialValue), PathSeed(index, clock))

MotionPath(m, seed) ==
  generatePath(Pct(m.drift), Pct(m.diffusion), Dec(m.timeHorizon, 10),
               m.timeSteps, FromInt(m.initialValue), seed)

MotionExpectedPath(m) ==
  generateExpectedPath(Pct(m.drift), Dec(m.timeHorizon, 10), m.timeSteps,
                       FromInt(m.initialValue))

MotionMergedData(m, s) ==
  MergedData(s.allPaths, s.expectedPath, Dec(m.timeHorizon, 10), m.timeSteps,
             m.paths, m.showExpectedPath)

Eval(f, a) ==
  CASE f = "Number"     -> NumFromInt(a[1])
    [] f = "+"          -> NumAdd(a[1], a[2])
    [] f = "*"          -> NumMul(a[1], a[2])
    [] f = "/"          -> NumDiv(a[1], a[2])
    [] f = "Math.round" -> NumRound(a[1])
    [] f = "Math.sqrt"  -> NumSqrt(a[1])
    [] f = "Math.log"   -> NumLog(a[1])
    [] f = "Math.exp"   -> NumExp(a[1])
    [] f = "erf"        -> NumErf(a[1])
    [] f = "%"          -> NumMod(a[1], a[2])
    [] f = "Math.cos"   -> NumCos(a[1])
    [] f = "calculateOptionPrice"        -> PriceOf(a)
    [] f = "calculateGreeks"             -> GreeksOf(a)
    [] f = "generatePriceChartData"      -> PriceChartOf(a)
    [] f = "generateVolatilityChartData" -> VolatilityChartOf(a)
    [] f = "generateDeltaUnderlyingData" -> DeltaUnderlyingOf(a)
    [] f = "generateDeltaVolatilityData" -> DeltaVolatilityOf(a)
    [] f = "generatePath"         -> MotionPathStart(a[1], a[2], a[3])
    [] f = "generatePath.loop"    -> PathStep(a[1])
    [] f = "generateExpectedPath" -> MotionExpectedPath(a[1])
    [] f = "simulatePaths.merge"  -> MotionMergedData(a[1], a[2])
    [] f = "useState"             -> DefaultParameters
    [] f = "handleChange"         -> ParsedValue(a[1], a[2])
    [] f = "App.effect"           -> AppCommit(a[1])
    [] f = "displayValue"         -> displayValue(a[1], a[2])
    [] f = "setParameters"        -> ParametersUpdater(a[1], a[2], a[3])
    [] f = "DeltaApproximationChart.useEffect" -> ApproximationEffect(a[1])
    [] f = "ChartParameters" -> ChartParametersOf(a[1])
    [] f = "DeltaTangentChart.useEffect" -> TangentEffect(a[1])
    [] f = "handleMouseMove" -> TangentMouseMove(a[1], a[2])
    [] f = "NormalDistribution.useState" -> NormalMounted
    [] f = "handleMeanChange" -> NormalMeanChange(a[1], SliderValue(a[2]))
    [] f = "handleStdDevChange" -> NormalStdDevChange(a[1], SliderValue(a[2]))
    [] f = "handleXValueChange" -> NormalXValueChange(a[1], SliderValue(a[2]))
    [] f = "XSliderOffers" -> XSliderOffers(a[1], SliderValue(a[2]))
    [] f = "simulatePaths.seed" -> PathSeed(a[1], a[2])
    [] f = "random" -> random(a[1])
    [] f = "getPathColor" -> getPathColor(a[1], a[2])
    [] f = "getLineColor" -> getLineColor(a[1], a[2])

(***************************************************************************)
(* The App component: the handlers of the input panel and the effect.      *)
(***************************************************************************)
\* the parameter changes a behaviour goes through
MaxChanges == 2

NumberFields ==
  {"underlyingPrice", "strikePrice", "timeToMaturity", "volatility",
   "riskFreeRate"}

\* the texts typed into the number fields: the empty field, zero, a negative
\* number and numbers of the domain
FieldTexts(name) ==
  CASE name = "underlyingPrice" -> {<<>>, <<"0">>, <<"-", "5", "0">>}
    [] name = "strikePrice"     -> {<<"0">>, <<"5", "0">>}
    [] name = "timeToMaturity"  -> {<<"-", "0", ".", "5">>}
    [] name = "volatility"      -> {<<"5", "0">>}
    [] name = "riskFreeRate"    -> {<<"0">>}

InitApp ==
  app = [parameters |-> Eval("useState", <<>>),
         optionPrice |-> Zero,
         greeks |-> [delta |-> Zero, gamma |-> Zero, theta |-> Zero,
                     vega |-> Zero, rho |-> Zero],
         priceChartData |-> <<>>, volatilityChartData |-> <<>>,
         deltaUnderlyingData |-> <<>>,
         turn |-> "effect", changes |-> 0]

\* handleParameterChange writing into the parameters object in place: no new
\* state object, so no render and no effect
handleParameterChangeInPlace(name, value) ==
  /\ app' = [app EXCEPT !.parameters = [@ EXCEPT ![name] = value],
                        !.changes = @ + 1]
  /\ UNCHANGED <<callVars, brownianVars, heapVars, panelVars>>

\* setParameters(prev => ({...prev, [name]: value})): a new parameters
\* object, so the component renders and the effect is due
handleParameterChange(name, value) ==
  /\ app' = [app EXCEPT !.parameters =
                          Eval("setParameters", <<@, name, value>>),
                        !.turn = "effect", !.changes = @ + 1]
  /\ UNCHANGED <<callVars, brownianVars, heapVars, panelVars>>

handleChange ==
  \E name \in NumberFields : \E value \in FieldTexts(name) :
    /\ app.turn = "idle" /\ app.changes < MaxChanges
    /\ handleParameterChange(name, Eval("handleChange", <<name, value>>))

\* the select reports a change of its value only
handleTypeChange ==
  \E value \in OptionTypes \ {app.parameters.optionType} :
    /\ app.turn = "idle" /\ app.changes < MaxChanges
    /\ handleParameterChange("optionType", value)

\* the effect on [parameters]: every setter is called with the engine's
\* output for the parameters of this render, unless a sweep loop does not
\* end, in which case the turn never finishes and nothing is committed
RunEffect ==
  /\ app.turn = "effect"
  /\ app' = Eval("App.effect", <<app>>)
  /\ UNCHANGED <<callVars, brownianVars, heapVars, panelVars>>

InitCalls == heap = <<>> /\ calls = <<>>

(***************************************************************************)
(* The DeltaApproximationChart component: a parent passes new parameters   *)
(* (the render is followed by the effect), the user clicks a delta point   *)
(* or the Reset Zoom button.                                               *)
(***************************************************************************)
\* the parameters passed to the chart components, as typed: at expiry, where
\* prices and Greeks are the closed forms of the T <= 0 branch
ChartParameters ==
  [type : OptionTypes, S : {50, 100, 150}, K : {50, 100}, r : {5}, T : {0},
   sigma : {20}]

InitApproximation ==
  approx = [parameters |-> <<>>, chartData |-> <<>>, deltaPoints |-> <<>>,
            selectedPoint |-> <<>>, zoomedView |-> FALSE, changes |-> 0]

\* a render with new parameters and the effect that follows it
ApproximationParameters ==
  \E a \in ChartParameters :
    /\ approx.changes < MaxChanges
    /\ approx' = Eval("DeltaApproximationChart.useEffect",
                      <<[approx EXCEPT
                           !.parameters = <<Eval("ChartParameters", <<a>>)>>,
                           !.changes = @ + 1]>>)
    /\ UNCHANGED <<callVars, brownianVars, appVars, heapVars, tangent, normal>>

\* the chart is drawn (not the "Loading chart data..." return)
ApproximationDrawn == approx.chartData # <<>> /\ approx.parameters # <<>>

\* handlePointClick(point), point being the delta point of a drawn dot
handlePointClick ==
  \E i \in DOMAIN approx.deltaPoints :
    /\ ApproximationDrawn
    /\ approx' = [approx EXCEPT !.selectedPoint = <<approx.deltaPoints[i]>>,
                                !.zoomedView = TRUE]
    /\ UNCHANGED <<callVars, brownianVars, appVars, heapVars, tangent, normal>>

\* handleResetZoom; the button is shown in the zoomed view
handleResetZoom ==
  /\ ApproximationDrawn /\ approx.zoomedView
  /\ approx' = [approx EXCEPT !.zoomedView = FALSE]
  /\ UNCHANGED <<callVars, brownianVars, appVars, heapVars, tangent, normal>>

(***************************************************************************)
(* The DeltaTangentChart component: a parent passes new parameters, the    *)
(* mouse moves over a point of the drawn curve or leaves the chart.        *)
(***************************************************************************)
\* the positions of the curve the mouse is moved to
HoverPositions == {1, 26, 51}

InitTangent ==
  tangent = [parameters |-> <<>>, chartData |-> <<>>, hoverPoint |-> <<>>,
             tangentLine |-> <<>>, changes |-> 0]

\* a render with new parameters and the effect that follows it
TangentParameters ==
  \E a \in ChartParameters :
    /\ tangent.changes < MaxChanges
    /\ tangent' = Eval("DeltaTangentChart.useEffect",
                       <<[tangent EXCEPT
                            !.parameters = <<Eval("ChartParameters", <<a>>)>>,
                            !.changes = @ + 1]>>)
    /\ UNCHANGED <<callVars, brownianVars, appVars, heapVars, approx, normal>>

\* the chart is drawn (not the "Loading chart data..." return)
TangentDrawn == tangent.chartData # <<>> /\ tangent.parameters # <<>>

handleMouseMove ==
  \E i \in HoverPositions \cap DOMAIN tangent.chartData :
    /\ TangentDrawn
    /\ tangent' = Eval("handleMouseMove", <<tangent, tangent.chartData[i]>>)
    /\ UNCHANGED <<callVars, brownianVars, appVars, heapVars, approx, normal>>

handleMouseLeave ==
  /\ TangentDrawn
  /\ tangent' = [tangent EXCEPT !.hoverPoint = <<>>, !.tangentLine = <<>>]
  /\ UNCHANGED <<callVars, brownianVars, appVars, heapVars, approx, normal>>

(***************************************************************************)
(* The NormalDistribution component: the three sliders; every change is    *)
(* followed by the effect.                                                 *)
(***************************************************************************)
\* positions of the Mean slider (min -3, max 3, step 0.1), in tenths
MeanTenths == {-30, -10, 0, 10, 30}

\* positions of the Standard Deviation slider (min 0.1, max 3), in tenths
StdDevTenths == {1, 5, 10, 30}

\* positions of the X Value slider, in tenths; it offers those within its
\* min and max
XTenths == {-150, -90, -50, -40, -30, -20, -10, -4, 0, 4, 10, 20, 26, 30, 34,
            40, 50, 70, 90, 150}

InitNormal == normal = Eval("NormalDistribution.useState", <<>>)

handleMeanChange ==
  \E n \in MeanTenths :
    /\ normal' = Eval("handleMeanChange", <<normal, n>>)
    /\ UNCHANGED <<callVars, brownianVars, appVars, heapVars, approx, tangent>>

handleStdDevChange ==
  \E n \in StdDevTenths :
    /\ normal' = Eval("handleStdDevChange", <<normal, n>>)
    /\ UNCHANGED <<callVars, brownianVars, appVars, heapVars, approx, tangent>>

handleXValueChange ==
  \E n \in XTenths :
    /\ Eval("XSliderOffers", <<normal, n>>)
    /\ normal' = Eval("handleXValueChange", <<normal, n>>)
    /\ UNCHANGED <<callVars, brownianVars, appVars, heapVars, approx, tangent>>

InitPanels == InitApproximation /\ InitTangent /\ InitNormal

(***************************************************************************)
(* The BrownianMotion component: its effect, step by step, and the         *)
(* handlers of its controls.                                               *)
(***************************************************************************)
\* the number of steps standing for timeSteps, which the component leaves at
\* 252
SimSteps == 3

\* the slider of the number of paths starts at 5
DefaultPaths == 5

\* the runs of the effect a behaviour goes through
MaxRuns == 2

\* readings of Date.now(), in milliseconds: two a millisecond apart around a
\* change of the ten-thousands and one ten seconds after the first
ClockValues == {9999, 10000, 19999}

\* the values the controls are moved to
DriftValues == {-20, 5}

DiffusionValues == {20, 50}

HorizonValues == {10, 20}

InitialValues == {100, 200}

PathCounts == {2, DefaultPaths}

\* no call of generatePath has been made
NoFrame ==
  [drift |-> Zero, diffusion |-> Zero, timeSteps |-> 0, dt |-> Zero,
   sqrtDt |-> Zero, seed |-> Zero, currentValue |-> Zero, t |-> 0,
   path |-> <<>>]

InitBrownianMotion ==
  /\ motion = [drift |-> 5, diffusion |-> 20, timeHorizon |-> 10,
               timeSteps |-> SimSteps, initialValue |-> 100,
               paths |-> DefaultPaths, showExpectedPath |-> TRUE]
  /\ simulationData = <<>>
  /\ now = 0
  /\ pc = "effect"
  /\ sim = [i |-> 0, allPaths |-> <<>>, expectedPath |-> <<>>]
  /\ frame = NoFrame
  /\ reads = <<>>
  /\ runs = <<>>

\* useEffect(() => { const simulatePaths = () => { const allPaths = []; ...
StartEffect ==
  /\ pc = "effect"
  /\ pc' = "simulatePaths"
  /\ sim' = [i |-> 0, allPaths |-> <<>>, expectedPath |-> <<>>]
  /\ reads' = <<>>
  /\ UNCHANGED <<callVars, appVars, heapVars, panelVars, motion, simulationData, now, frame, runs>>

\* a pass of the path loop up to the loop of generatePath: the clock is read,
\* the seed computed, generatePath entered
GeneratePathAt(clocks) ==
  /\ pc = "simulatePaths" /\ sim.i < motion.paths
  /\ \E clock \in clocks :
       /\ clock >= now
       /\ now' = clock
       /\ frame' = Eval("generatePath", <<motion, sim.i, clock>>)
       /\ reads' = Append(reads, [clock |-> clock, seed |-> frame'.seed])
  /\ pc' = "generatePath"
  /\ UNCHANGED <<callVars, appVars, heapVars, panelVars, motion, simulationData, sim, runs>>

CallGeneratePath == GeneratePathAt(ClockValues)

\* the same pass in the behaviours of several runs, where a run takes less
\* than a millisecond: its later passes read what its first pass read
CallGeneratePathFast ==
  GeneratePathAt(IF sim.i = 0 THEN ClockValues ELSE {now})

\* a pass of the loop of generatePath: one draw, one point
Draw ==
  /\ pc = "generatePath" /\ frame.t <= frame.timeSteps
  /\ frame' = Eval("generatePath.loop", <<frame>>)
  /\ UNCHANGED <<callVars, appVars, heapVars, panelVars, motion, simulationData, now, pc, sim, reads, runs>>

\* generatePath returns; the path is formatted and pushed, i++
ReturnPath ==
  /\ pc = "generatePath" /\ frame.t > frame.timeSteps
  /\ sim' = [sim EXCEPT !.allPaths = Append(@, FormattedPath(frame.path, sim.i)),
                        !.i = @ + 1]
  /\ pc' = "simulatePaths"
  /\ UNCHANGED <<callVars, appVars, heapVars, panelVars, motion, simulationData, now, frame, reads, runs>>

\* after the path loop: const expectedPath = generateExpectedPath(...)
CallExpectedPath ==
  /\ pc = "simulatePaths" /\ sim.i >= motion.paths
  /\ sim' = [sim EXCEPT !.expectedPath = Eval("generateExpectedPath", <<motion>>)]
  /\ pc' = "merge"
  /\ UNCHANGED <<callVars, appVars, heapVars, panelVars, motion, simulationData, now, frame, reads, runs>>

\* the merge loop and setSimulationData(mergedData)
Merge ==
  /\ pc = "merge"
  /\ simulationData' = Eval("simulatePaths.merge", <<motion, sim>>)
  /\ runs' = Append(runs, [motion |-> motion, reads |-> reads,
                           data |-> simulationData'])
  /\ pc' = "idle"
  /\ UNCHANGED <<callVars, appVars, heapVars, panelVars, motion, now, sim, frame, reads>>

\* a control sets one field of the parameter state to another value, which
\* schedules the effect
SetMotion(field, value) ==
  /\ pc = "idle" /\ Len(runs) < MaxRuns
  /\ motion[field] # value
  /\ motion' = [motion EXCEPT ![field] = value]
  /\ pc' = "effect"
  /\ UNCHANGED <<callVars, appVars, heapVars, panelVars, simulationData, now, sim, frame, reads, runs>>

setDrift == \E value \in DriftValues : SetMotion("drift", value)

setDiffusion == \E value \in DiffusionValues : SetMotion("diffusion", value)

setTimeHorizon == \E value \in HorizonValues : SetMotion("timeHorizon", value)

setInitialValue == \E value \in InitialValues : SetMotion("initialValue", value)

setPaths == \E value \in PathCounts : SetMotion("paths", value)

setShowExpectedPath == SetMotion("showExpectedPath", ~motion.showExpectedPath)

\* the component alone: no engine call is made
InitMotion ==
  /\ op = "none" /\ args = <<>> /\ result = <<>>
  /\ InitBrownianMotion
  /\ InitApp
  /\ InitCalls
  /\ InitPanels

\* the run of the effect after the component is mounted
NextSimulation ==
  \/ StartEffect
  \/ CallGeneratePath
  \/ Draw
  \/ ReturnPath
  \/ CallExpectedPath
  \/ Merge

SpecSimulation == InitMotion /\ [][NextSimulation]_vars

\* the runs of the effect as the controls are moved
NextBrownianMotion ==
  \/ StartEffect
  \/ CallGeneratePathFast
  \/ Draw
  \/ ReturnPath
  \/ CallExpectedPath
  \/ Merge
  \/ setDrift
  \/ setDiffusion
  \/ setTimeHorizon
  \/ setInitialValue
  \/ setPaths
  \/ setShowExpectedPath

SpecBrownianMotion == InitMotion /\ [][NextBrownianMotion]_vars

InitAppSpec ==
  /\ op = "none" /\ args = <<>> /\ result = <<>>
  /\ InitBrownianMotion
  /\ InitApp
  /\ InitCalls
  /\ InitPanels

NextApp == handleChange \/ handleTypeChange \/ RunEffect

SpecApp == InitAppSpec /\ [][NextApp]_vars

(***************************************************************************)
(* A caller of the engine: it calls the exported functions one after the   *)
(* other and may change the objects it got back.                           *)
(***************************************************************************)
\* the calls a behaviour goes through
MaxCalls == 2

EngineFunctions ==
  {"calculateOptionPrice", "calculateGreeks", "generatePriceChartData",
   "generateVolatilityChartData", "generateDeltaVolatilityData",
   "generateDeltaUnderlyingData"}

\* the arguments of the calls, as in PointArgs, PriceChartArgs, SeriesArgs
\* and DeltaVolArgs
CallArgs(f) ==
  CASE f \in {"calculateOptionPrice", "calculateGreeks"} ->
         {[type |-> "call", S |-> 150, K |-> 100, r |-> 5, T |-> 50,
           sigma |-> 20]}
    [] f = "generatePriceChartData" ->
         {[type |-> "call", S |-> 100, K |-> 100, r |-> 5, T |-> 0,
           sigma |-> 20, range |-> 30, points |-> 3],
          [type |-> "put", S |-> 100, K |-> 100, r |-> 5, T |-> 0,
           sigma |-> 20, range |-> 30, points |-> 3]}
    [] f \in {"generateVolatilityChartData", "generateDeltaUnderlyingData"} ->
         {[type |-> "call", S |-> 100, K |-> 100, r |-> 5, T |-> 0,
           vols |-> <<20, 40, 10>>, range |-> 80, points |-> 3]}
    [] f = "generateDeltaVolatilityData" ->
         {[type |-> "call", K |-> 100, r |-> 5, T |-> 0,
           vols |-> <<20, 40, 10>>]}

\* a function that keeps what it returned and returns the same object when
\* called with the same arguments again
CachedResult(f, a) ==
  IF \E i \in DOMAIN calls : calls[i].op = f /\ calls[i].args = a
  THEN LET i == CHOOSE i \in DOMAIN calls : calls[i].op = f /\ calls[i].args = a
       IN  [ref |-> calls[i].ref, value |-> heap[calls[i].ref]]
  ELSE [ref |-> Len(heap) + 1, value |-> Eval(f, a)]

\* what a call returns: an object built in the call (const data = [],
\* const allData = [], an object literal or a number) from the arguments alone
FreshResult(f, a) == [ref |-> Len(heap) + 1, value |-> Eval(f, a)]

\* the record of a call of f with the arguments a that returned r
Returning(f, a, r) ==
  [op |-> f, args |-> a, ref |-> r.ref, value |-> r.value, changed |-> FALSE]

CallEngine ==
  \E f \in EngineFunctions : \E a \in CallArgs(f) :
    /\ Len(calls) < MaxCalls
    /\ calls' = Append(calls, Returning(f, a, FreshResult(f, a)))
    /\ heap' = IF calls'[Len(calls')].ref > Len(heap)
               THEN Append(heap, calls'[Len(calls')].value)
               ELSE heap
    /\ UNCHANGED <<callVars, brownianVars, appVars, panelVars>>

\* the caller changes an object it got back: it empties an array
\* (data.length = 0) or overwrites the delta of a Greeks object; a price is a
\* number and cannot be changed
ChangeResult ==
  \E i \in DOMAIN calls :
    /\ calls[i].op # "calculateOptionPrice"
    /\ ~calls[i].changed
    /\ heap' = [heap EXCEPT ![calls[i].ref] =
                  IF calls[i].op = "calculateGreeks"
                  THEN [@ EXCEPT !.delta = NaN]
                  ELSE <<>>]
    /\ calls' = [calls EXCEPT ![i].changed = TRUE]
    /\ UNCHANGED <<callVars, brownianVars, appVars, panelVars>>

InitCaller ==
  /\ op = "none" /\ args = <<>> /\ result = <<>>
  /\ InitBrownianMotion
  /\ InitApp
  /\ InitCalls
  /\ InitPanels

NextCaller == CallEngine \/ ChangeResult

SpecCaller == InitCaller /\ [][NextCaller]_vars

(***************************************************************************)
(* The input panel on its own: a text is typed into a number field         *)
(* (handleChange) and the stored value is displayed again (displayValue).  *)
(***************************************************************************)
\* the texts typed: whole numbers, one to three decimals, a negative number,
\* zero and the empty field
TypedTexts ==
  {<<>>, <<"0">>, <<"7">>, <<"2", "0">>, <<"1", "5", "0">>, <<"-", "5">>,
   <<"0", ".", "5">>, <<"1", "2", ".", "5">>, <<"0", ".", "0", "7">>,
   <<"1", "2", ".", "3", "4">>, <<"1", "2", ".", "3", "4", "5">>,
   <<"0", ".", "0", "0", "4">>}

InitInputPanel ==
  /\ op = "none"
  /\ args \in [name : NumberFields, value : TypedTexts]
  /\ result = <<>>
  /\ InitBrownianMotion
  /\ InitApp
  /\ InitCalls
  /\ InitPanels

\* handleChange(e): what it passes to onParameterChange
CallHandleChange ==
  /\ op = "none"
  /\ op' = "handleChange"
  /\ result' = Eval(op', <<args.name, args.value>>)
  /\ UNCHANGED <<args, brownianVars, appVars, heapVars, panelVars>>

\* the next render: displayValue(name, parameters[name])
CallDisplayValue ==
  /\ op = "handleChange"
  /\ op' = "displayValue"
  /\ result' = [stored |-> result,
                shown |-> Eval(op', <<args.name, result>>)]
  /\ UNCHANGED <<args, brownianVars, appVars, heapVars, panelVars>>

NextInputPanel == CallHandleChange \/ CallDisplayValue

SpecInputPanel == InitInputPanel /\ [][NextInputPanel]_vars

InitApproximationSpec ==
  /\ op = "none" /\ args = <<>> /\ result = <<>>
  /\ InitBrownianMotion
  /\ InitApp
  /\ InitCalls
  /\ InitPanels

NextApproximation ==
  ApproximationParameters \/ handlePointClick \/ handleResetZoom

SpecApproximation == InitApproximationSpec /\ [][NextApproximation]_vars

InitTangentSpec ==
  /\ op = "none" /\ args = <<>> /\ result = <<>>
  /\ InitBrownianMotion
  /\ InitApp
  /\ InitCalls
  /\ InitPanels

NextTangent == TangentParameters \/ handleMouseMove \/ handleMouseLeave

SpecTangent == InitTangentSpec /\ [][NextTangent]_vars

InitNormalSpec ==
  /\ op = "none" /\ args = <<>> /\ result = <<>>
  /\ InitBrownianMotion
  /\ InitApp
  /\ InitCalls
  /\ InitPanels

NextNormal == handleMeanChange \/ handleStdDevChange \/ handleXValueChange

SpecNormal == InitNormalSpec /\ [][NextNormal]_vars

(***************************************************************************)
(* The closure random() of generatePath on its own: called once per pass   *)
(* of the loop of a path of the default 252 steps, from the seed           *)
(* simulatePaths gives the path.                                           *)
(***************************************************************************)
\* useState(252): the time steps of a path
DefaultTimeSteps == 252

\* the path indices (of 0..9) and the readings of Date.now() the seeds are
\* made of
SeedIndices == {0, 2, 8}

SeedClocks == {1509, 2643, 7706, 9999}

InitRandom ==
  /\ op = "simulatePaths.seed"
  /\ args \in [index : SeedIndices, clock : SeedClocks]
  /\ result = [draw |-> [seed |-> Eval(op, <<args.index, args.clock>>)],
               draws |-> 0]
  /\ InitBrownianMotion
  /\ InitApp
  /\ InitCalls
  /\ InitPanels

CallRandom ==
  /\ result.draws < DefaultTimeSteps
  /\ op' = "random"
  /\ result' = [draw |-> Eval(op', <<result.draw.seed>>),
                 draws |-> result.draws + 1]
  /\ UNCHANGED <<args, brownianVars, appVars, heapVars, panelVars>>

NextRandom == CallRandom

SpecRandom == InitRandom /\ [][NextRandom]_vars

(***************************************************************************)
(* The colour functions, called for line index of total lines as the       *)
(* renders call them: index from 0 to total - 1.                           *)
(***************************************************************************)
\* max="10" of the Number of Paths slider (its min is 1)
MaxPaths == 10

InitColor ==
  /\ op = "none"
  /\ args \in {a \in [index : 0..(MaxPaths - 1), total : 1..MaxPaths] :
                 a.index < a.total}
  /\ result = <<>>
  /\ InitBrownianMotion
  /\ InitApp
  /\ InitCalls
  /\ InitPanels

\* stroke={getPathColor(i, paths)}
CallGetPathColor ==
  /\ op = "none"
  /\ op' = "getPathColor"
  /\ result' = Eval(op', <<args.index, args.total>>)
  /\ UNCHANGED <<args, brownianVars, appVars, heapVars, panelVars>>

\* stroke={getLineColor(index, volatilityChartData.length)}
CallGetLineColor ==
  /\ op = "none"
  /\ op' = "getLineColor"
  /\ result' = Eval(op', <<args.index, args.total>>)
  /\ UNCHANGED <<args, brownianVars, appVars, heapVars, panelVars>>

NextColor == CallGetPathColor \/ CallGetLineColor

SpecColor == InitColor /\ [][NextColor]_vars

CallPrice ==
  /\ op = "none" /\ args \in PointArgs
  /\ op' = "calculateOptionPrice"
  /\ result' = Eval(op', args)
  /\ UNCHANGED <<args, brownianVars, appVars, heapVars, panelVars>>

CallGreeks ==
  /\ op = "none" /\ args \in PointArgs
  /\ op' = "calculateGreeks"
  /\ result' = Eval(op', args)
  /\ UNCHANGED <<args, brownianVars, appVars, heapVars, panelVars>>

CallPriceChart ==
  /\ op = "none" /\ args \in PriceChartArgs
  /\ op' = "generatePriceChartData"
  /\ result' = Eval(op', args)
  /\ UNCHANGED <<args, brownianVars, appVars, heapVars, panelVars>>

CallVolatilityChart ==
  /\ op = "none" /\ args \in SeriesArgs
  /\ op' = "generateVolatilityChartData"
  /\ result' = Eval(op', args)
  /\ UNCHANGED <<args, brownianVars, appVars, heapVars, panelVars>>

CallDeltaUnderlying ==
  /\ op = "none" /\ args \in SeriesArgs
  /\ op' = "generateDeltaUnderlyingData"
  /\ result' = Eval(op', args)
  /\ UNCHANGED <<args, brownianVars, appVars, heapVars, panelVars>>

CallDeltaVolatility ==
  /\ op = "none" /\ args \in DeltaVolArgs
  /\ op' = "generateDeltaVolatilityData"
  /\ result' = Eval(op', args)
  /\ UNCHANGED <<args, brownianVars, appVars, heapVars, panelVars>>

InitEngine ==
  /\ op = "none"
  /\ args \in PointArgs
  /\ result = <<>>
  /\ InitBrownianMotion
  /\ InitApp
  /\ InitCalls
  /\ InitPanels

NextEngine == CallPrice \/ CallGreeks

SpecEngine == InitEngine /\ [][NextEngine]_vars

InitChart ==
  /\ op = "none"
  /\ args \in PriceChartArgs \cup SeriesArgs
  /\ result = <<>>
  /\ InitBrownianMotion
  /\ InitApp
  /\ InitCalls
  /\ InitPanels

NextChart == CallPriceChart \/ CallVolatilityChart \/ CallDeltaUnderlying

SpecChart == InitChart /\ [][NextChart]_vars

InitDeltaVolatility ==
  /\ op = "none"
  /\ args \in DeltaVolArgs
  /\ result = <<>>
  /\ InitBrownianMotion
  /\ InitApp
  /\ InitCalls
  /\ InitPanels

NextDeltaVolatility == CallDeltaVolatility

SpecDeltaVolatility == InitDeltaVolatility /\ [][NextDeltaVolatility]_vars

Init ==
  /\ op = "none"
  /\ args \in PointArgs \cup PriceChartArgs \cup SeriesArgs
  /\ result = <<>>
  /\ InitBrownianMotion
  /\ InitApp
  /\ InitCalls
  /\ InitPanels

Next ==
  \/ CallPrice
  \/ CallGreeks
  \/ CallPriceChart
  \/ CallVolatilityChart
  \/ CallDeltaUnderlying

Spec == Init /\ [][Next]_vars

(***************************************************************************)
(* Properties of calculateOptionPrice and calculateGreeks (SpecEngine).    *)
(***************************************************************************)
IsPrice == op = "calculateOptionPrice"

IsGreeks == op = "calculateGreeks"

\* the arguments as Numbers
ArgS == FromInt(args.S)

ArgK == FromInt(args.K)

\* the price and the Greeks of the same arguments for the given type
PriceAs(type) ==
  IF args.type = type THEN result ELSE PriceOf([args EXCEPT !.type = type])

GreeksAs(type) ==
  IF args.type = type THEN result ELSE GreeksOf([args EXCEPT !.type = type])

\* C1: for T <= 0 calculateOptionPrice returns exactly max(0, S - K) for a
\* call and max(0, K - S) for any other type; d1 and d2 are not evaluated, so
\* the result carries no NaN of a division by sigma * sqrt(T) = 0.
C1_IntrinsicAtExpiry ==
  (IsPrice /\ args.T <= 0) =>
    LET diff == IF args.type = "call" THEN FSub(ArgS, ArgK) ELSE FSub(ArgK, ArgS)
    IN  /\ result = (IF FGt(diff, Zero) THEN diff ELSE Zero)
        /\ IsFinite(result)

\* an expired call in the money priced with sigma = 0: the result is S - K
C1_Witness ==
  /\ IsPrice /\ args.T = 0 /\ args.sigma = 0 /\ args.type = "call"
  /\ args.S = 150 /\ args.K = 100
  /\ result = FromInt(50)

\* C2: for T <= 0 calculateGreeks returns gamma = theta = vega = rho = 0 and
\* a delta of +1 for a call with S > K, -1 for a put with K > S, 0 otherwise
\* (S = K included).
C2_GreeksAtExpiry ==
  (IsGreeks /\ args.T <= 0) =>
    /\ result.gamma = Zero /\ result.theta = Zero
    /\ result.vega = Zero /\ result.rho = Zero
    /\ result.delta =
         (IF args.type = "call" /\ args.S > args.K THEN One
          ELSE IF args.type = "put" /\ args.K > args.S THEN FNeg(One)
          ELSE Zero)

\* an expired put at the money: delta 0
C2_Witness ==
  /\ IsGreeks /\ args.T = 0 /\ args.type = "put" /\ args.S = 100 /\ args.K = 100
  /\ result.delta = Zero /\ result.gamma = Zero

\* the tolerance 1e-9
ParityTolerance == Dec(1, 1000000000)

\* S - K * exp(-r * T)
ForwardValue == FSub(ArgS, FMul(ArgK, MathExp(FMul(FNeg(Pct(args.r)), Pct(args.T)))))

\* call price minus put price
CallMinusPut == FSub(PriceAs("call"), PriceAs("put"))

ParityHolds ==
  /\ FLe(FAbs(FSub(CallMinusPut, ForwardValue)), ParityTolerance)
  /\ args.T = 0 => CallMinusPut = FSub(ArgS, ArgK)

ValidInputs == args.S > 0 /\ args.K > 0 /\ args.sigma > 0 /\ args.T >= 0

\* the ranges of the input form, prices up to 10^5: prices from 0.01, T = 0 or
\* 0.01 to 10 years, sigma 1 % to 200 %, r 0 % to 20 %
ModerateInputs ==
  /\ args.S <= 100000 /\ args.K <= 100000
  /\ args.T <= 1000 /\ args.sigma >= 1 /\ args.sigma <= 200
  /\ args.r >= 0 /\ args.r <= 20

C4_BlackScholesFormula ==
  (IsPrice /\ args.T > 0) =>
    LET r     == Pct(args.r)
        T     == Pct(args.T)
        sigma == Pct(args.sigma)
        volT  == FMul(sigma, MathSqrt(T))
        d1    == FDiv(FAdd(MathLog(FDiv(ArgS, ArgK)),
                           FMul(FAdd(r, FDiv(FMul(sigma, sigma), Two)), T)),
                      volT)
        d2    == FSub(d1, volT)
        Kd    == FMul(ArgK, MathExp(FMul(FNeg(r), T)))
    IN  result = (IF args.type = "call"
                  THEN FSub(FMul(ArgS, cdf(d1)), FMul(Kd, cdf(d2)))
                  ELSE FSub(FMul(Kd, cdf(FNeg(d2))), FMul(ArgS, cdf(FNeg(d1)))))

\* a put half a year out, in the money, with a positive finite price
C4_Witness ==
  /\ IsPrice /\ args.T = 50 /\ args.type = "put" /\ args.S = 50 /\ args.K = 100
  /\ args.sigma = 50
  /\ IsFinite(result) /\ FGt(result, FromInt(40))

\* C5: for T > 0 calculateGreeks returns the same gamma and the same vega for
\* a call and a put on the same inputs, and the put's delta is the call's
\* delta minus 1.
C5_CallPutGreeks ==
  (IsGreeks /\ args.T > 0) =>
    /\ GreeksAs("call").gamma = GreeksAs("put").gamma
    /\ GreeksAs("call").vega = GreeksAs("put").vega
    /\ GreeksAs("put").delta = FSub(GreeksAs("call").delta, One)

\* the Greeks of a put one year out: a delta strictly between -1 and 0
C5_Witness ==
  /\ IsGreeks /\ args.T = 100 /\ args.type = "put" /\ args.S = 100
  /\ args.K = 100 /\ args.sigma = 20 /\ args.r = 5
  /\ FLt(result.delta, Zero) /\ FGt(result.delta, FNeg(One))
  /\ FGt(result.gamma, Zero) /\ FGt(result.vega, Zero)

IsPriceChart == op = "generatePriceChartData"

IsSeriesChart ==
  op \in {"generateVolatilityChartData", "generateDeltaUnderlyingData"}

\* center * (1 - range) and center * (1 + range) as the generators compute them
LowerBound(center) == FMul(FromInt(center), FSub(One, Pct(args.range)))

UpperBound(center) == FMul(FromInt(center), FAdd(One, Pct(args.range)))

\* the underlyingPrice column of a sequence of points
Underlyings(data) == [i \in 1..Len(data) |-> data[i].underlyingPrice]

Last(seq) == seq[Len(seq)]

\* C7: generatePriceChartData returns points whose underlyingPrice is
\* strictly ascending, starts at S * (1 - range) and never exceeds
\* S * (1 + range), and whose optionPrice is calculateOptionPrice(type,
\* underlyingPrice, K, r, T, sigma).
C7_PriceChartPoints ==
  IsPriceChart =>
    /\ Len(result) >= 1
    /\ result[1].underlyingPrice = LowerBound(args.S)
    /\ \A i \in 1..(Len(result) - 1) :
         FLt(result[i].underlyingPrice, result[i + 1].underlyingPrice)
    /\ \A i \in 1..Len(result) :
         /\ FLe(result[i].underlyingPrice, UpperBound(args.S))
         /\ result[i].optionPrice =
              calculateOptionPrice(args.type, result[i].underlyingPrice,
                                   FromInt(args.K), Pct(args.r), Pct(args.T),
                                   Pct(args.sigma))

\* App's price chart: ascending from 70, priced point by point
C7_Witness ==
  /\ IsPriceChart /\ args.points = DefaultPoints /\ args.type = "call"
  /\ Len(result) > MaxPoints
  /\ result[1].underlyingPrice = FromInt(70)
  /\ FLt(result[1].optionPrice, Last(result).optionPrice)

\* C8: for S > 0, range > 0 and points >= 2 the sweeps generate exactly
\* `points` points and include the upper bound: the price chart has `points`
\* entries ending at S * (1 + range), every series of the volatility and
\* delta-underlying charts has `points` entries ending at K * (1 + range).
C8_ExactlyPointsInclusive ==
  /\ IsPriceChart =>
       /\ Len(result) = args.points
       /\ Last(result).underlyingPrice = UpperBound(args.S)
  /\ IsSeriesChart =>
       \A j \in 1..Len(result) :
         /\ Len(result[j].data) = args.points
         /\ Last(result[j].data).underlyingPrice = UpperBound(args.K)

\* the labels minVol, minVol + volStep, ... of a sweep given in hundredths
VolLabels(vols) ==
  [j \in 1..((vols[2] - vols[1]) \div vols[3] + 1) |->
     Pct(vols[1] + (j - 1) * vols[3])]

WithS(S) ==
  IF op = "generateVolatilityChartData"
  THEN VolatilityChartOf([args EXCEPT !.S = S])
  ELSE DeltaUnderlyingOf([args EXCEPT !.S = S])

\* C10: within one result of the volatility or delta-underlying chart every
\* series has the same underlyingPrice sequence, spanning K * (1 - range) to
\* K * (1 + range), and the result does not depend on S.
C10_SharedAxisAroundStrike ==
  IsSeriesChart =>
    /\ \A j \in 1..Len(result) :
         /\ Underlyings(result[j].data) = Underlyings(result[1].data)
         /\ result[j].data[1].underlyingPrice = LowerBound(args.K)
         /\ Last(result[j].data).underlyingPrice = UpperBound(args.K)
    /\ \A S \in {50, 100} : WithS(S) = result

(***************************************************************************)
(* Properties of generateDeltaVolatilityData (SpecDeltaVolatility).        *)
(***************************************************************************)
IsDeltaVolatility == op = "generateDeltaVolatilityData"

\* the rounded volatility levels the sweep of the call visits
RoundedVols ==
  VolSweepFrom(Pct(args.vols[1]), Pct(args.vols[2]), Pct(args.vols[3]), <<>>)

\* C11: every point of generateDeltaVolatilityData carries the five Greeks
\* of calculateGreeks(type, K, K, r, T, v) for the point's volatility v
\* rounded to 2 decimals, and its volatility field is v * 100.
C11_AtTheMoneyGreeks ==
  IsDeltaVolatility =>
    LET vs == RoundedVols
    IN  /\ Len(result) = Len(vs)
        /\ \A j \in 1..Len(vs) :
             LET v == vs[j]
                 g == calculateGreeks(args.type, FromInt(args.K), FromInt(args.K),
                                      Pct(args.r), Pct(args.T), v)
             IN  /\ v = RoundedVol(v)
                 /\ result[j] = [volatility |-> FMul(v, Hundred),
                                 delta |-> g.delta, gamma |-> g.gamma,
                                 theta |-> g.theta, vega |-> g.vega,
                                 rho |-> g.rho]

\* the default sweep 0.05 .. 1.0 of a call one year from expiry: 96 points,
\* the first at 5 %, the last at 100 %, with a delta above one half
C11_Witness ==
  /\ IsDeltaVolatility /\ args.vols = <<5, 100, 1>> /\ args.type = "call"
  /\ Len(result) = 96
  /\ result[1].volatility = FromInt(5) /\ result[96].volatility = Hundred
  /\ FGt(result[1].delta, Half) /\ FGt(result[1].vega, Zero)

(***************************************************************************)
(* Properties of the BrownianMotion component (SpecBrownianMotion).        *)
(***************************************************************************)
\* generatePath is about to return
AtReturn == pc = "generatePath" /\ frame.t > frame.timeSteps

\* the arguments generatePath gets from the parameter state m
GenArgs(m) ==
  [drift |-> m.drift, diffusion |-> m.diffusion, timeHorizon |-> m.timeHorizon,
   timeSteps |-> m.timeSteps, initialValue |-> m.initialValue]

\* the values of path `index` in a merged dataset
Column(data, index) == [n \in 1..Len(data) |-> data[n][PathKey(index)]]

\* every path of the finished runs: the arguments and the seed of its call,
\* the run and the position it was generated at, the values it returned
Generated ==
  UNION {{[args |-> GenArgs(runs[n].motion), seed |-> runs[n].reads[k].seed,
           run |-> n, index |-> k - 1,
           values |-> Column(runs[n].data, k - 1)] :
            k \in 1..runs[n].motion.paths} : n \in 1..Len(runs)}

\* C12: generatePath is deterministic in its arguments: two calls with the
\* same drift, diffusion, timeHorizon, timeSteps, initialValue and seed
\* return the same values, whatever calls were made before or between them.
C12_Deterministic ==
  \A a \in Generated : \A b \in Generated :
    (a.args = b.args /\ a.seed = b.seed) => a.values = b.values

\* the mount run and a second run ten seconds later gave their second path
\* the same seed, with the calls of four other paths in between, and the
\* path came out the same: two draws away from its start
C12_Witness ==
  /\ Len(runs) = 2
  /\ GenArgs(runs[1].motion) = GenArgs(runs[2].motion)
  /\ runs[1].reads[2].seed = runs[2].reads[2].seed
  /\ runs[1].reads[2].clock # runs[2].reads[2].clock
  /\ Column(runs[1].data, 1) = Column(runs[2].data, 1)
  /\ Column(runs[1].data, 1)[3] # Column(runs[1].data, 1)[1]
  /\ Column(runs[1].data, 1) # Column(runs[1].data, 0)

\* (n * 9301 + 49297) mod 233280 on integers, the product split in two so
\* that no intermediate value leaves the range of the checker's integers
LcgNext(n) ==
  (((n * 4650) % 233280) + ((n * 4651) % 233280) + 49297) % 233280

RECURSIVE LcgIter(_, _)
LcgIter(n, draws) == IF draws = 0 THEN n ELSE LcgIter(LcgNext(n), draws - 1)

\* the integer seed of the path being generated
InitialSeed == (Len(reads) - 1) * 10000 + (Last(reads).clock % 10000)

\* C13: each draw advances the generator state once by
\* seed' = (seed * 9301 + 49297) mod 233280; a path makes exactly timeSteps
\* draws; from a non-negative integer seed the state after every draw is an
\* integer in 0..233279.
C13_GeneratorState ==
  pc = "generatePath" =>
    LET draws == frame.t - 1
        state == LcgIter(InitialSeed, draws)
    IN  /\ frame.seed = NumFromInt(state)
        /\ Len(frame.path) = draws + 1
        /\ draws <= motion.timeSteps
        /\ AtReturn => draws = motion.timeSteps
        /\ draws > 0 => state \in 0..233279

\* the second path of a run returns after timeSteps draws from seed 10000
C13_Witness ==
  /\ AtReturn /\ Len(reads) = 2 /\ InitialSeed = 10000 /\ now = 10000
  /\ frame.t - 1 = SimSteps
  /\ frame.seed = NumFromInt(LcgIter(10000, SimSteps))
  /\ frame.seed # NumFromInt(10000)

\* C14: within one run the paths get pairwise different seeds, seed_i =
\* i * 10000 + clock mod 10000 whatever clock each pass reads, and every
\* path is the one generatePath returns from its own seed: no path's
\* generator state is read or written by another path.
C14_SeedsPerPath ==
  /\ \A k \in 1..Len(reads) :
       /\ reads[k].seed = NumFromInt((k - 1) * 10000 + (reads[k].clock % 10000))
       /\ \A l \in 1..Len(reads) : k # l => reads[k].seed # reads[l].seed
  /\ pc = "merge" =>
       /\ Len(sim.allPaths) = motion.paths /\ Len(reads) = motion.paths
       /\ \A k \in 1..motion.paths :
            sim.allPaths[k] =
              FormattedPath(MotionPath(motion, reads[k].seed), k - 1)

\* a run whose first pass read the clock at 9999 and whose second pass read
\* it a millisecond later: seeds 9999 and 10000
C14_Witness ==
  /\ pc = "merge" /\ motion.paths >= 2
  /\ reads[1].clock = 9999 /\ reads[2].clock = 10000
  /\ reads[1].seed = NumFromInt(9999) /\ reads[2].seed = NumFromInt(10000)
  /\ sim.allPaths[1][2].path1 # sim.allPaths[2][2].path2

\* C15: two runs with the same parameters at different wall-clock times use
\* different seeds for path i and produce different paths.
C15_RunsDiffer ==
  \A a \in 1..Len(runs) : \A b \in 1..Len(runs) :
    (/\ a < b
     /\ GenArgs(runs[a].motion) = GenArgs(runs[b].motion)
     /\ runs[a].motion.paths = runs[b].motion.paths)
    => \A k \in 1..runs[a].motion.paths :
         runs[a].reads[k].clock # runs[b].reads[k].clock
         => /\ runs[a].reads[k].seed # runs[b].reads[k].seed
            /\ Column(runs[a].data, k - 1) # Column(runs[b].data, k - 1)

\* timeHorizon / timeSteps of the parameter state
MotionDt == NumDiv(Dec(motion.timeHorizon, 10), NumFromInt(motion.timeSteps))

\* a sequence of timeSteps + 1 points at the times t * (timeHorizon /
\* timeSteps), t = 0..timeSteps, ascending, starting at (0, initialValue)
IsTimeGrid(points) ==
  /\ Len(points) = motion.timeSteps + 1
  /\ \A n \in 1..Len(points) :
       points[n].time = NumMul(NumFromInt(n - 1), MotionDt)
  /\ \A n \in 1..(Len(points) - 1) : FLt(points[n].time, points[n + 1].time)
  /\ points[1] = [time |-> Zero, value |-> NumFromInt(motion.initialValue)]

\* C16: generatePath and generateExpectedPath each return timeSteps + 1
\* points at the times t * (timeHorizon / timeSteps), t = 0..timeSteps,
\* ascending; the first point of both is (0, initialValue); the expected
\* value at step t is initialValue * exp(drift * time_t).
C16_TimeGrid ==
  /\ AtReturn => IsTimeGrid(frame.path)
  /\ pc = "merge" =>
       /\ IsTimeGrid(sim.expectedPath)
       /\ \A n \in 1..Len(sim.expectedPath) :
            sim.expectedPath[n].value =
              NumMul(NumFromInt(motion.initialValue),
                     NumExp(NumMul(Pct(motion.drift), sim.expectedPath[n].time)))

\* the expected path of the mount run, with drift 0.05, rises from 100; the
\* last path of that run has returned with its last point at time 1
C16_Witness ==
  /\ pc = "merge" /\ motion.drift = 5
  /\ Len(sim.expectedPath) = SimSteps + 1
  /\ FGt(Last(sim.expectedPath).value, sim.expectedPath[1].value)
  /\ Last(frame.path).time = One
  /\ IsFinite(Last(frame.path).value)
(* ---------------------------------------------------------------------- *)
(* C18: calculateOptionPrice outside its domain                             *)
(* ---------------------------------------------------------------------- *)

\* an input that violates a domain constraint: sigma = 0, T < 0, S <= 0 or
\* K <= 0
ViolatingInputs == args.sigma = 0 \/ args.T < 0 \/ args.S <= 0 \/ args.K <= 0

\* the inputs at which calculateD1 is NaN: S / K negative or 0 / 0 (so that
\* Math.log is NaN), or 0 / 0 in the quotient itself (S = K, r = 0 and
\* sigma = 0)
NaNInputs ==
  \/ args.S * args.K < 0
  \/ args.K = 0 /\ args.S <= 0
  \/ args.S = args.K /\ args.r = 0 /\ args.sigma = 0

C17_EffectCompletes == app.turn # "hung"

(* ---------------------------------------------------------------------- *)
(* C20: the state of App after the effect                                   *)
(* ---------------------------------------------------------------------- *)

\* C20: after any sequence of parameter changes, once the effect for the
\* latest change has run, optionPrice, greeks, priceChartData,
\* volatilityChartData and deltaUnderlyingData are what the engine returns for
\* the current parameters.
C20_LastWriteWins ==
  app.turn = "idle" =>
    LET p     == app.parameters
        point == <<p.optionType, p.underlyingPrice, p.strikePrice,
                   p.riskFreeRate, p.timeToMaturity, p.volatility>>
        sweep == <<p.optionType, p.underlyingPrice, p.strikePrice,
                   p.riskFreeRate, p.timeToMaturity>>
    IN  /\ app.optionPrice = Returned("calculateOptionPrice", point)
        /\ app.greeks = Returned("calculateGreeks", point)
        /\ app.priceChartData = Returned("generatePriceChartData", point)
        /\ app.volatilityChartData =
             Returned("generateVolatilityChartData",
                      sweep \o <<Pct(20), Pct(90), Pct(10), Pct(80)>>)
        /\ app.deltaUnderlyingData =
             Returned("generateDeltaUnderlyingData",
                      sweep \o <<Pct(10), Pct(90), Pct(10), Pct(80)>>)

\* two changes (the strike to 50, then the type to put) and the effect run
\* after the second
C20_Witness ==
  /\ app.turn = "idle" /\ app.changes = 2
  /\ app.parameters.optionType = "put"
  /\ app.parameters.strikePrice = FromInt(50)
  /\ app.optionPrice.arguments[1] = "put"
  /\ app.optionPrice.arguments[3] = FromInt(50)
(* ---------------------------------------------------------------------- *)
(* C19: the engine functions are pure                                       *)
(* ---------------------------------------------------------------------- *)

\* C19: in any sequence of calls of the engine functions, two calls of the
\* same function with the same arguments return the same value whatever
\* happened between them, every call returns an object no earlier call
\* returned, and an object the caller has not changed still has the value it
\* was returned with.
C19_Pure ==
  /\ \A i, j \in DOMAIN calls :
       (calls[i].op = calls[j].op /\ calls[i].args = calls[j].args)
         => calls[i].value = calls[j].value
  /\ \A i, j \in DOMAIN calls : i < j => calls[i].ref # calls[j].ref
  /\ \A i \in DOMAIN calls :
       ~calls[i].changed => heap[calls[i].ref] = calls[i].value

\* generatePriceChartData called twice with the same arguments, the caller
\* having emptied the first array
C19_Witness ==
  /\ Len(calls) = 2
  /\ calls[1].op = "generatePriceChartData" /\ calls[2].op = calls[1].op
  /\ calls[2].args = calls[1].args
  /\ calls[1].changed /\ heap[calls[1].ref] = <<>>
  /\ Len(calls[2].value) = 3 /\ heap[calls[2].ref] = calls[2].value
(* ---------------------------------------------------------------------- *)
(* C21: the merged dataset                                                  *)
(* ---------------------------------------------------------------------- *)

\* the fields of a row of the dataset for the parameter state m
RowFields(m) ==
  {"time"} \cup {PathKey(index) : index \in 0..(m.paths - 1)}
           \cup (IF m.showExpectedPath THEN {"expected"} ELSE {})

\* C21: the dataset simulatePaths merges has timeSteps + 1 rows; row t has
\* the time t * (timeHorizon / timeSteps) and for every path i the field
\* path<i> with the t-th value of that path; the field expected is in every
\* row when showExpectedPath is true and in no row when it is false.
C21_MergedRows ==
  (pc = "idle" /\ runs # <<>>) =>
    /\ Len(simulationData) = motion.timeSteps + 1
    /\ \A n \in 1..Len(simulationData) :
         /\ DOMAIN simulationData[n] = RowFields(motion)
         /\ simulationData[n].time = NumMul(NumFromInt(n - 1), MotionDt)
         /\ \A index \in 0..(motion.paths - 1) :
              simulationData[n][PathKey(index)] =
                sim.allPaths[index + 1][n][PathKey(index)]
         /\ motion.showExpectedPath =>
              simulationData[n].expected = sim.expectedPath[n].value

\* a second run, after the checkbox was cleared: two paths' worth of rows
\* without the field expected
C21_Witness ==
  /\ pc = "idle" /\ Len(runs) = 2
  /\ ~motion.showExpectedPath
  /\ Len(simulationData) = SimSteps + 1
  /\ "expected" \notin DOMAIN simulationData[1]
  /\ PathKey(motion.paths - 1) \in DOMAIN simulationData[SimSteps + 1]
(* ---------------------------------------------------------------------- *)
(* C22: duplicate volatility levels                                         *)
(* ---------------------------------------------------------------------- *)

\* the React key of a series of the volatility chart: `vol-${series.volatility}`
VolKey(series) == <<"vol-", series.volatility>>

\* C22: there are minVol <= maxVol and volStep > 0 for which
\* generateVolatilityChartData returns two series with the same volatility
\* (and so the same key): the sweeps from 0.2 to 0.21 in steps of 0.004 and
\* from 0.3 to 0.303 in steps of 0.001 are such.
C22_DuplicateLevels ==
  (op = "generateVolatilityChartData" /\ Len(args.vols) = 4) =>
    \E i, j \in 1..Len(result) :
      /\ i < j
      /\ result[i].volatility = result[j].volatility
      /\ VolKey(result[i]) = VolKey(result[j])

\* the sweep 0.2, 0.204, 0.208: three series labelled 0.2, 0.2 and 0.21
C22_Witness ==
  /\ op = "generateVolatilityChartData" /\ args.vols = <<200, 210, 4, 1000>>
  /\ [j \in 1..Len(result) |-> result[j].volatility] =
       <<NumDiv(NumFromInt(20), NumFromInt(100)),
         NumDiv(NumFromInt(20), NumFromInt(100)),
         NumDiv(NumFromInt(21), NumFromInt(100))>>
(* ---------------------------------------------------------------------- *)
(* C23: percent fields, stored and displayed                                *)
(* ---------------------------------------------------------------------- *)

\* C23: handleChange stores the parsed value divided by 100 for volatility
\* and riskFreeRate and the parsed value itself for every other field;
\* displayValue shows the percent fields multiplied by 100, so that the
\* percentage typed is the percentage shown, and the other fields as stored.
C23_RoundTrip ==
  op = "displayValue" =>
    IF args.name \in PercentFields
    THEN /\ result.stored = NumDiv(parseFloat(args.value), NumFromInt(100))
         /\ parseFloat(result.shown) = parseFloat(args.value)
    ELSE /\ result.stored = parseFloat(args.value)
         /\ result.shown = result.stored
(* ---------------------------------------------------------------------- *)
(* C24: the zoomed view of DeltaApproximationChart                          *)
(* ---------------------------------------------------------------------- *)

\* C24: zoomedView becomes true only by a click on a delta point, which
\* makes that point the selectedPoint; it is false after every parameter
\* change and after Reset Zoom; Reset Zoom leaves selectedPoint unchanged;
\* so a zoomed view always has a selected point.
C24_ZoomFollowsClicks ==
  [][/\ (~approx.zoomedView /\ approx'.zoomedView) =>
          /\ handlePointClick
          /\ \E i \in DOMAIN approx.deltaPoints :
               approx'.selectedPoint = <<approx.deltaPoints[i]>>
     /\ handlePointClick => approx'.zoomedView
     /\ approx'.changes # approx.changes => ~approx'.zoomedView
     /\ handleResetZoom =>
          /\ ~approx'.zoomedView
          /\ approx'.selectedPoint = approx.selectedPoint
     /\ approx'.zoomedView => approx'.selectedPoint # <<>>]_vars

\* zoomed on a clicked delta point that is not the point the effect had
\* selected, after a second parameter change
C24_Witness ==
  /\ approx.zoomedView
  /\ approx.changes = 2
  /\ approx.selectedPoint # <<>>
  /\ \E i \in DOMAIN approx.deltaPoints :
       /\ approx.selectedPoint = <<approx.deltaPoints[i]>>
       /\ approx.selectedPoint[1].underlyingPrice #
            approx.parameters[1].underlyingPrice
(* ---------------------------------------------------------------------- *)
(* C25: the draws of a path                                                 *)
(* ---------------------------------------------------------------------- *)

\* C25: from every seed simulatePaths produces, the generator state after
\* each of the 252 draws of a path is non-zero and the Box-Muller value
\* returned is finite.
C25_DrawsFinite ==
  op = "random" => (~IsZero(result.draw.seed) /\ IsFinite(result.draw.z))
(* ---------------------------------------------------------------------- *)
(* C26: the hue of a line                                                   *)
(* ---------------------------------------------------------------------- *)

\* C26: for every total >= 1 and every index in 0..total-1, getPathColor
\* and getLineColor compute a hue from 0 to 240, a single line (total = 1)
\* included.
C26_HueInRange ==
  op \in {"getPathColor", "getLineColor"} =>
    /\ FLe(NumFromInt(0), result[2])
    /\ FLe(result[2], NumFromInt(240))
(* ---------------------------------------------------------------------- *)
(* C27: the hover point of DeltaTangentChart                                *)
(* ---------------------------------------------------------------------- *)

\* C27: after every parameter change, mouse move and mouse leave, there is
\* a tangent line only with a hover point, a mouse leave clears both, and
\* a hover point is a point of the current chartData.
C27_HoverIsCurrent ==
  [][/\ handleMouseLeave =>
          (tangent'.hoverPoint = <<>> /\ tangent'.tangentLine = <<>>)
     /\ tangent'.tangentLine # <<>> => tangent'.hoverPoint # <<>>
     /\ tangent'.hoverPoint # <<>> =>
          \E i \in DOMAIN tangent'.chartData :
            tangent'.chartData[i] = tangent'.hoverPoint[1]]_vars
(* ---------------------------------------------------------------------- *)
(* C28: the Show Expected Path checkbox                                     *)
(* ---------------------------------------------------------------------- *)

\* C28: toggling showExpectedPath only adds or removes the field expected
\* of the dataset shown: the values of path1..pathN after the toggle are
\* those shown before it.
C28_ToggleKeepsPaths ==
  \A a \in 1..(Len(runs) - 1) :
    runs[a + 1].motion = [runs[a].motion EXCEPT !.showExpectedPath = ~@]
    => /\ Len(runs[a + 1].data) = Len(runs[a].data)
       /\ \A n \in 1..Len(runs[a].data) :
            /\ runs[a + 1].data[n].time = runs[a].data[n].time
            /\ \A k \in 0..(runs[a].motion.paths - 1) :
                 runs[a + 1].data[n][PathKey(k)] = runs[a].data[n][PathKey(k)]
(* ---------------------------------------------------------------------- *)
(* C29: the x value of NormalDistribution                                   *)
(* ---------------------------------------------------------------------- *)

\* C29: after every sequence of changes of the three sliders, xValue lies
\* within the range of the X Value slider, from mean - 4 * stdDev to
\* mean + 4 * stdDev.
C29_XInRange ==
  /\ FLe(XSliderMin(normal), normal.xValue)
  /\ FLe(normal.xValue, XSliderMax(normal))
(* ---------------------------------------------------------------------- *)
(* C30: handleParameterChange changes one field                             *)
(* ---------------------------------------------------------------------- *)

\* the changes the panel can deliver: a field and the value passed for it
Deliverable ==
  {<<"optionType", type>> : type \in OptionTypes} \cup
  UNION {{<<name, ParsedValue(name, text)>> : text \in FieldTexts(name)} :
           name \in NumberFields}

\* C30: handleParameterChange(name, value) sets the field name of the
\* parameters to value and leaves every other field as it was; two changes
\* of distinct fields give the same parameters in either order.
C30_OneFieldChanges ==
  [][/\ app'.parameters # app.parameters =>
          \E c \in Deliverable :
            /\ app'.parameters[c[1]] = c[2]
            /\ DOMAIN app'.parameters = DOMAIN app.parameters
            /\ \A other \in DOMAIN app.parameters \ {c[1]} :
                 app'.parameters[other] = app.parameters[other]
     /\ \A c, d \in Deliverable :
          c[1] # d[1] =>
            ParametersUpdater(ParametersUpdater(app.parameters, c[1], c[2]),
                              d[1], d[2])
            = ParametersUpdater(ParametersUpdater(app.parameters, d[1], d[2]),
                                c[1], c[2])]_vars

\* the strike changed to 50 and the time to maturity to -0.5, in one order
\* or the other, everything else as initially
C30_Witness ==
  /\ app.changes = 2
  /\ app.parameters =
       [DefaultParameters EXCEPT
          !.strikePrice = NumFromInt(50),
          !.timeToMaturity = NumDiv(NumFromInt(-5), NumFromInt(10))]
====
